---------------------------- MODULE Spec2Model ----------------------------
(***************************************************************************)
(* A model of the Blue-Cloud -> EOSC onboarding scripts:                   *)
(*   integration.py              id-mapping key file, update_or_create     *)
(*   catalog_interaction_eosc.py authorized requests against the target    *)
(*   catalog_interaction_blue.py token retrieval for the source catalogue  *)
(*   mapping.py                  extract_bluecloud_metadata                *)
(* Python strings are TLA+ strings; Len, \o and SubSeq act on them         *)
(* character by character, as len(), + and slicing do in the source.       *)
(***************************************************************************)
EXTENDS Integers, Sequences, FiniteSets, TLC

(***************************************************************************)
(* String helpers (Python str methods used by the source).                 *)
(***************************************************************************)

\* s[i:] with a 1-based inclusive start
From(s, i) == SubSeq(s, i, Len(s))

\* needle in haystack  (Python: `needle in haystack`)
StrIn(needle, haystack) ==
    \E i \in 1..(Len(haystack) + 1 - Len(needle)) :
        SubSeq(haystack, i, i + Len(needle) - 1) = needle

\* s.startswith(p)
StartsWith(s, p) == Len(p) <= Len(s) /\ SubSeq(s, 1, Len(p)) = p

\* s.find(sep) as a 1-based index, 0 when absent
Find(s, sep) ==
    IF StrIn(sep, s)
    THEN CHOOSE i \in 1..(Len(s) + 1 - Len(sep)) :
            /\ SubSeq(s, i, i + Len(sep) - 1) = sep
            /\ \A j \in 1..(i - 1) : SubSeq(s, j, j + Len(sep) - 1) # sep
    ELSE 0

\* s.split(sep): the list of pieces, sep non-empty
RECURSIVE Split(_, _)
Split(s, sep) ==
    LET i == Find(s, sep)
    IN  IF i = 0 THEN <<s>>
        ELSE <<SubSeq(s, 1, i - 1)>> \o Split(From(s, i + Len(sep)), sep)

IsSpace(c) == c \in {" ", "\n", "\t"}

\* s.lstrip(), s.rstrip(), s.strip()
RECURSIVE LStrip(_)
LStrip(s) == IF Len(s) > 0 /\ IsSpace(SubSeq(s, 1, 1)) THEN LStrip(From(s, 2)) ELSE s

RECURSIVE RStrip(_)
RStrip(s) ==
    IF Len(s) > 0 /\ IsSpace(SubSeq(s, Len(s), Len(s)))
    THEN RStrip(SubSeq(s, 1, Len(s) - 1)) ELSE s

Strip(s) == LStrip(RStrip(s))

(***************************************************************************)
(* The id-mapping key file (integration.py).                               *)
(***************************************************************************)

\* Python's None, where a value may be a string or None
None == "<None>"

\* the file PRIMARY_KEY_MAPPING_FILE: absent, or present with its text
NoFile == [exists |-> FALSE, content |-> ""]

KEYFILE_HEADER == "date;service_name;bluecloud_id;eosc_id;eosc_title"

\* datetime.now().strftime('%Y-%m-%d_%H:%M:%S') at the t-th call: one call a second
Now(t) == "2022-06-13_17:31:0" \o ToString(t)

\* the text of the key file after write_id_to_file, given the text before
write_id_to_file_nocheck(file, blue_id, service_name, eosc_id, eosc_title, now) ==
    IF eosc_id = None THEN file
    ELSE LET withHeader == IF file.exists THEN file.content
                           ELSE KEYFILE_HEADER \o "\n"
             line == service_name \o ";" \o blue_id \o ";" \o eosc_id \o ";" \o eosc_title
         IN  [exists |-> TRUE, content |-> withHeader \o now \o ";" \o line \o "\n"]

write_id_to_file_datecheck(file, blue_id, service_name, eosc_id, eosc_title, now) ==
    IF eosc_id = None THEN file
    ELSE LET withHeader == IF file.exists THEN file.content
                           ELSE KEYFILE_HEADER \o "\n"
             line == service_name \o ";" \o blue_id \o ";" \o eosc_id \o ";" \o eosc_title
         IN  IF StrIn(now \o ";" \o line, withHeader)
             THEN [exists |-> TRUE, content |-> withHeader]
             ELSE [exists |-> TRUE, content |-> withHeader \o now \o ";" \o line \o "\n"]

write_id_to_file(file, blue_id, service_name, eosc_id, eosc_title, now) ==
    IF eosc_id = None THEN file
    ELSE LET withHeader == IF file.exists THEN file.content
                           ELSE KEYFILE_HEADER \o "\n"
             line == service_name \o ";" \o blue_id \o ";" \o eosc_id \o ";" \o eosc_title
         IN  IF StrIn(line, withHeader)
             THEN [exists |-> TRUE, content |-> withHeader]
             ELSE [exists |-> TRUE, content |-> withHeader \o now \o ";" \o line \o "\n"]

\* what write_id_to_file returns: False for a None id, otherwise None
write_id_to_file_result(eosc_id) == IF eosc_id = None THEN "False" ELSE None

\* the lines `for line in fi` yields: the text cut after each "\n", which
\* stays at the end of its line
RECURSIVE FileLines(_)
FileLines(content) ==
    LET i == Find(content, "\n")
    IN  IF Len(content) = 0 THEN <<>>
        ELSE IF i = 0 THEN <<content>>
        ELSE <<SubSeq(content, 1, i)>> \o FileLines(From(content, i + 1))

\* get_eosc_id_from_file: the first line whose third field is blue_id decides
RECURSIVE ScanKeyLines(_, _)
ScanKeyLines(lines, blue_id) ==
    IF lines = <<>> THEN [exc |-> None, value |-> None]
    ELSE LET fields == Split(lines[1], ";")
         IN  IF Len(fields) < 3 THEN [exc |-> "IndexError", value |-> None]
             ELSE IF fields[3] = blue_id
                  THEN IF Len(fields) < 4 THEN [exc |-> "IndexError", value |-> None]
                       ELSE [exc |-> None, value |-> Strip(fields[4])]
                  ELSE ScanKeyLines(Tail(lines), blue_id)

get_eosc_id_from_file(file, blue_id) ==
    IF ~file.exists THEN [exc |-> None, value |-> None]
    ELSE ScanKeyLines(FileLines(file.content), blue_id)


(***************************************************************************)
(* State.                                                                  *)
(***************************************************************************)
VARIABLES
    keyfile,            \* the key file PRIMARY_KEY_MAPPING_FILE
    store,              \* the calls made on the key file, and the last one
    EOSC_ACCESS_TOKEN,  \* the module global of catalog_interaction_eosc
    remote,             \* the target catalogue: its resources, the ids it gave out
    run,                \* the call of update_or_create_at_eosc in progress
    jwt,                \* the call of get_jwt_token in progress
    extract             \* the call of extract_bluecloud_metadata in progress

vars == <<keyfile, store, EOSC_ACCESS_TOKEN, remote, run, jwt, extract>>
syncVars == <<EOSC_ACCESS_TOKEN, remote, run>>
callVars == <<jwt, extract>>

\* no call of get_jwt_token yet
NoTokenCall == [pc |-> "idle", n |-> 0, clientid |-> None, secret |-> None,
                audience |-> None, sent |-> 0, payload |-> None, status |-> 0,
                access_token |-> None, outcome |-> [exc |-> None, value |-> None]]

\* a local variable of extract_bluecloud_metadata that nothing has assigned yet
Unbound == "<unbound>"

\* the locals of extract_bluecloud_metadata as lines 379-458 leave them
NoLocals ==
    [blue_id |-> "", abbreviation |-> "", eosc_name |-> "", version |-> "",
     description |-> "", tags |-> <<>>,
     resourceOrganisation |-> "", resourceProviders |-> <<>>,
     webpage |-> "", tagline |-> "", logo |-> "",
     multimedia_url |-> "", multimedia_name |-> "",
     use_case_url |-> "", use_case_name |-> "",
     domain_ids |-> <<>>, subdomain_ids |-> <<>>, domain_names |-> <<>>,
     category_ids |-> <<>>, subcategory_ids |-> <<>>, category_names |-> <<>>,
     targetUsers |-> <<>>, targetUsersNames |-> <<>>,
     accessTypes |-> <<>>, accessModes |-> <<>>,
     geographicalAvailabilities |-> <<>>, languageAvailabilities |-> <<>>,
     resourceGeographicLocations |-> <<>>, eosc_id |-> Unbound,
     maincontact_name |-> Unbound, publiccontact_name |-> Unbound,
     trl |-> "", lifeCycleStatus |-> "",
     fundingBodies |-> <<>>, fundingPrograms |-> <<>>, orderType |-> "",
     missing_mandatory_items |-> <<>>,
     collected_messages |-> <<>>]

\* no source record, and no call of extract_bluecloud_metadata yet
NoRecord == [id |-> "", title |-> "", name |-> "", version |-> "", notes |-> "",
             tags |-> <<>>]
\* the caller get_and_convert_metadata, when the call comes from it: its flag,
\* the JSON files it has written and the record it has returned, <<>> when it
\* has returned None
NoCaller == [tofile |-> FALSE, files |-> <<>>, returned |-> <<>>]
NoExtract == [pc |-> "idle", md |-> NoRecord, extras |-> <<>>, loc |-> NoLocals,
              exc |-> None, line |-> 0, target |-> <<>>, caller |-> NoCaller]

(***************************************************************************)
(* StoreSpec: a caller appends to and reads from the key file.             *)
(***************************************************************************)
MaxStoreCalls == 2

BlueIds == {"b1", "b2"}
ServiceNames == {"oceanpatterns", "mei_generator"}
EoscIds == {"blue-cloud.op", "blue-cloud.mei"}
Titles == {"OceanPatterns", "Ocean Patterns"}

NoStoreCall == [n |-> 0, op |-> "none", args |-> <<>>, ret |-> None,
                before |-> NoFile, repeated |-> FALSE]

NoRemote == [resources |-> {}, created |-> [b \in BlueIds |-> 0], issued |-> 0]

NoOutcome == [exc |-> None, value |-> None]
NoRun == [pc |-> "idle", n |-> 0, svc |-> None, dry_run |-> FALSE, eosc_id |-> None,
          does_exists |-> None, verb |-> None, i |-> 0, auth |-> None, log |-> <<>>,
          outcome |-> NoOutcome]

StoreInit ==
    /\ keyfile = NoFile
    /\ store = NoStoreCall
    /\ EOSC_ACCESS_TOKEN = None
    /\ remote = NoRemote
    /\ run = NoRun
    /\ jwt = NoTokenCall
    /\ extract = NoExtract

StoreWrite ==
    \E b \in BlueIds, s \in ServiceNames, e \in EoscIds \cup {None}, t \in Titles :
        /\ store.n < MaxStoreCalls
        /\ keyfile' = write_id_to_file(keyfile, b, s, e, t, Now(store.n + 1))
        /\ store' = [n |-> store.n + 1, op |-> "write", args |-> <<b, s, e, t>>,
                     ret |-> write_id_to_file_result(e), before |-> keyfile,
                     repeated |-> store.op = "write" /\ store.args = <<b, s, e, t>>]
        /\ UNCHANGED <<syncVars, callVars>>

StoreGet ==
    \E b \in BlueIds :
        /\ store.n < MaxStoreCalls
        /\ store' = [n |-> store.n + 1, op |-> "get", args |-> <<b>>,
                     ret |-> get_eosc_id_from_file(keyfile, b), before |-> keyfile,
                     repeated |-> FALSE]
        /\ UNCHANGED <<keyfile, syncVars, callVars>>

StoreNext == StoreWrite \/ StoreGet

StoreSpec == StoreInit /\ [][StoreNext]_vars

\* the records of the key file: its lines after the header, each split at ";"
RecordLines == IF keyfile.exists THEN Tail(FileLines(keyfile.content)) ELSE <<>>
RecordFields(i) == Split(RecordLines[i], ";")
\* the text of a record after its date: service_name;bluecloud_id;eosc_id;eosc_title
RecordContent(i) == From(RecordLines[i], Len(Now(1)) + 2)


(***************************************************************************)
(* Spec: runs of update_or_create_at_eosc against the target catalogue.    *)
(* Every HTTP exchange is one step; the status the target answers with is  *)
(* its own choice.                                                         *)
(***************************************************************************)
MaxRuns == 2

\* a service as update_or_create_at_eosc sees it: service_name, and the mapped
\* metadata's blue_id, name (the source title) and resourceOrganisation
Services ==
    { [blue_id |-> "b1", service_name |-> "oceanpatterns",
       name |-> "OceanPatterns", resourceOrganisation |-> "blue-cloud"],
      [blue_id |-> "b2", service_name |-> "mei_generator",
       name |-> "mei_generator", resourceOrganisation |-> "blue-cloud"] }

\* the ids the target gives to the resources it creates
TargetIds == {"blue-cloud.op", "blue-cloud.mei", "blue-cloud.op-2"}

\* the statuses the target and the identity provider answer with
RequestStatuses == {200, 201, 401, 500}
TokenStatuses == {200, 401}
SearchStatuses == {200, 404, 500}

\* the resource onboarded by hand, and the key file naming it
OnboardedResource ==
    [id |-> "blue-cloud.op", name |-> "OceanPatterns",
     resourceOrganisation |-> "blue-cloud"]
OnboardedKeyFile ==
    write_id_to_file(NoFile, "b1", "oceanpatterns", "blue-cloud.op", "OceanPatterns", Now(0))

Init ==
    /\ keyfile \in {NoFile, OnboardedKeyFile}
    /\ store = NoStoreCall
    /\ EOSC_ACCESS_TOKEN = None
    /\ remote \in {NoRemote, [NoRemote EXCEPT !.resources = {OnboardedResource}]}
    /\ run = NoRun
    /\ jwt = NoTokenCall
    /\ extract = NoExtract

RemoteIds == {r.id : r \in remote.resources}

\* a call that ended: by returning value, or by raising exc
Returned(r, value) == [r EXCEPT !.pc = "done", !.outcome = [exc |-> None, value |-> value]]
Raised(r, exc) == [r EXCEPT !.pc = "raised", !.outcome = [exc |-> exc, value |-> None]]

\* does_resource_exist_by_id, given the status of its GET and whether the body
\* is JSON (the debug line parses it whatever the status)
does_resource_exist_by_id(status, body_is_json) ==
    IF ~body_is_json THEN [exc |-> "JSONDecodeError", value |-> None]
    ELSE IF status = 200 THEN [exc |-> None, value |-> TRUE]
    ELSE IF status = 404 THEN [exc |-> None, value |-> FALSE]
    ELSE [exc |-> "RuntimeError", value |-> None]

\* does_resource_exist_by_name, given the status of its GET, whether the body
\* holds the key read from it ("error" on a 500, "total" otherwise) and the
\* first page of hits
does_resource_exist_by_name(name, resourceOrganisation, status, body_has_key, results) ==
    IF status = 500
    THEN IF body_has_key THEN [exc |-> None, value |-> FALSE]
         ELSE [exc |-> "KeyError", value |-> None]
    ELSE IF ~body_has_key THEN [exc |-> "KeyError", value |-> None]
    ELSE [exc |-> None,
          value |-> \E item \in results :
                        /\ item.name = name
                        /\ item.resourceOrganisation = resourceOrganisation]

\* make_authorized_request up to its loop: ask for a token when there is none,
\* otherwise set the Authorization header from the global
make_authorized_request(r, verb) ==
    IF EOSC_ACCESS_TOKEN = None
    THEN [r EXCEPT !.pc = "token_initial", !.verb = verb, !.i = 0]
    ELSE [r EXCEPT !.pc = "request", !.verb = verb, !.i = 0,
                   !.auth = "Bearer " \o EOSC_ACCESS_TOKEN]

\* the rest of update_or_create_at_eosc once does_exists is known: update_resource
\* or create_resource, each starting with make_authorized_request
UpdateOrCreate(r, exists) ==
    IF exists.exc # None THEN Raised(r, exists.exc)
    ELSE make_authorized_request([r EXCEPT !.does_exists = exists.value],
                                 IF exists.value THEN "PUT" ELSE "POST")

\* update_or_create_at_eosc up to its first request
StartRun ==
    \E svc \in Services, dry_run \in BOOLEAN :
        /\ run.pc \in {"idle", "done", "raised"}
        /\ run.n < MaxRuns
        /\ LET found == get_eosc_id_from_file(keyfile, svc.blue_id)
               r == [NoRun EXCEPT !.n = run.n + 1, !.svc = svc, !.dry_run = dry_run,
                                  !.eosc_id = found.value]
           IN  run' = IF found.exc # None THEN Raised(r, found.exc)
                      ELSE IF dry_run THEN Returned(r, None)
                      ELSE IF found.value # None THEN [r EXCEPT !.pc = "check_id"]
                      ELSE [r EXCEPT !.pc = "check_name"]
        /\ UNCHANGED <<keyfile, store, EOSC_ACCESS_TOKEN, remote, callVars>>

\* the GET of does_resource_exist_by_id and what follows without a request
ExistsById ==
    \E status \in {IF run.eosc_id \in RemoteIds THEN 200 ELSE 404, 500},
       body_is_json \in BOOLEAN :
        /\ run.pc = "check_id"
        /\ status = 200 => body_is_json
        /\ run' = UpdateOrCreate(
                    [run EXCEPT !.log = Append(@, <<"GET /resource/id", status>>)],
                    does_resource_exist_by_id(status, body_is_json))
        /\ UNCHANGED <<keyfile, store, EOSC_ACCESS_TOKEN, remote, callVars>>

\* the GET of does_resource_exist_by_name and what follows without a request
ExistsByName ==
    \E status \in SearchStatuses, body_has_key \in BOOLEAN,
       results \in SUBSET remote.resources :
        /\ run.pc = "check_name"
        /\ status = 200 => body_has_key
        /\ status = 404 => ~body_has_key
        /\ status # 200 => results = {}
        /\ run' = UpdateOrCreate(
                    [run EXCEPT !.log = Append(@, <<"GET /resource/all", status>>)],
                    does_resource_exist_by_name(run.svc.service_name,
                        run.svc.resourceOrganisation, status, body_has_key, results))
        /\ UNCHANGED <<keyfile, store, EOSC_ACCESS_TOKEN, remote, callVars>>

\* get_new_access_token: 200 sets the global, anything else raises
GetNewAccessToken ==
    \E status \in TokenStatuses :
        /\ run.pc \in {"token_initial", "token_reauth"}
        /\ LET token == "token" \o ToString(remote.issued + 1)
               logged == [run EXCEPT !.log = Append(@, <<"POST /oidc/token", status>>)]
           IN  IF status = 200
               THEN /\ EOSC_ACCESS_TOKEN' = token
                    /\ remote' = [remote EXCEPT !.issued = @ + 1]
                    /\ run' = IF run.pc = "token_initial"
                              THEN [logged EXCEPT !.pc = "request",
                                                  !.auth = "Bearer " \o token]
                              ELSE [logged EXCEPT !.pc = "request"]
               ELSE /\ run' = Raised(logged, "RuntimeError")
                    /\ UNCHANGED <<EOSC_ACCESS_TOKEN, remote>>
        /\ UNCHANGED <<keyfile, store, callVars>>

\* whether the module global `name` that create_resource logs is defined:
\* catalog_interaction_eosc assigns it only in its __main__ block
NameIsDefined == FALSE

\* a create_resource that returns the id of the body whatever the status is
create_resource_any_status(status, body_id) == [exc |-> None, value |-> body_id]

\* create_resource once make_authorized_request has returned resp
create_resource(status, body_id) ==
    IF status = 201
    THEN IF NameIsDefined THEN [exc |-> None, value |-> body_id]
         ELSE [exc |-> "NameError", value |-> None]
    ELSE [exc |-> "ValueError", value |-> None]

\* update_resource once make_authorized_request has returned resp
update_resource(status) ==
    IF status # 201 THEN [exc |-> "ValueError", value |-> None]
    ELSE [exc |-> None, value |-> None]

\* one turn of the loop of make_authorized_request: the request, and on 200 or
\* 201 the caller's code up to the end of update_or_create_at_eosc
Request ==
    \E status \in RequestStatuses, new_id \in TargetIds :
        /\ run.pc = "request"
        /\ LET i == run.i + 1
               creates == run.verb = "POST" /\ status = 201
               logged == [run EXCEPT !.i = i,
                                     !.log = Append(@, <<run.verb, status, run.auth>>)]
               created == create_resource(status, new_id)
               updated == update_resource(status)
           IN  /\ creates => new_id \notin RemoteIds
               /\ remote' = IF creates
                            THEN [remote EXCEPT
                                    !.resources = @ \cup
                                        {[id |-> new_id, name |-> run.svc.name,
                                          resourceOrganisation |->
                                              run.svc.resourceOrganisation]},
                                    !.created[run.svc.blue_id] = @ + 1]
                            ELSE remote
               /\ IF status = 200 \/ status = 201
                  THEN IF run.verb = "PUT"
                       THEN /\ run' = IF updated.exc # None THEN Raised(logged, updated.exc)
                                      ELSE Returned(logged, None)
                            /\ UNCHANGED <<keyfile, store>>
                       ELSE IF created.exc # None
                            THEN /\ run' = Raised(logged, created.exc)
                                 /\ UNCHANGED <<keyfile, store>>
                            ELSE /\ keyfile' = write_id_to_file(keyfile, run.svc.blue_id,
                                                  run.svc.service_name, created.value,
                                                  run.svc.name, Now(run.n))
                                 /\ run' = Returned(logged, created.value)
                                 /\ UNCHANGED store
                  ELSE /\ run' = IF i <= 1 THEN [logged EXCEPT !.pc = "token_reauth"]
                                 ELSE Raised(logged, "RuntimeError")
                       /\ UNCHANGED <<keyfile, store>>
        /\ UNCHANGED <<EOSC_ACCESS_TOKEN, callVars>>

Next == StartRun \/ ExistsById \/ ExistsByName \/ GetNewAccessToken \/ Request

Spec == Init /\ [][Next]_vars

(***************************************************************************)
(* TokenSpec: calls of get_jwt_token (catalog_interaction_blue.py).  The   *)
(* POST to the identity provider and its answer are two steps.             *)
(***************************************************************************)
MaxTokenCalls == 2

AUDIENCES ==
    {"MarineEnvironmentalIndicators", "Blue-CloudProject", "Blue-CloudLab",
     "FisheriesAtlas", "PlanktonGenomics", "Zoo-Phytoplankton_EOV"}

\* what callers pass: the audiences above, and VRE names that are not among them
ClientIds == {"Blue-Cloud-EOSC-onboarding"}
Secrets == {"xyz", ""}
CallerAudiences ==
    AUDIENCES \cup {"GRSF_Pre", "AquacultureAtlasGeneration", "marineenvironmentalindicators"}

\* what the identity provider answers
JwtStatuses == {200, 401, 403, 500}
AccessTokens == {"eyJhbGciOiJSUzI1NiJ9.a", "eyJhbGciOiJSUzI1NiJ9.b"}

\* the test `audience not in AUDIENCES` decides on the negation of this
audience_is_valid_any(audience) == TRUE

audience_is_valid(audience) == audience \in AUDIENCES

TokenInit ==
    /\ keyfile = NoFile
    /\ store = NoStoreCall
    /\ EOSC_ACCESS_TOKEN = None
    /\ remote = NoRemote
    /\ run = NoRun
    /\ jwt = NoTokenCall
    /\ extract = NoExtract

\* get_jwt_token up to its request.  For an audience that is not valid the
\* raise statement formats its two-placeholder message with the list AUDIENCES
\* as the only argument, which is a TypeError; the ValueError is never built.
get_jwt_token ==
    \E clientid \in ClientIds, secret \in Secrets, audience \in CallerAudiences :
        /\ jwt.pc \in {"idle", "done", "raised"}
        /\ jwt.n < MaxTokenCalls
        /\ LET call == [NoTokenCall EXCEPT !.n = jwt.n + 1, !.clientid = clientid,
                                          !.secret = secret, !.audience = audience]
           IN  jwt' = IF ~audience_is_valid(audience)
                      THEN [call EXCEPT !.pc = "raised",
                                        !.outcome = [exc |-> "TypeError", value |-> None]]
                      ELSE [call EXCEPT
                              !.pc = "request", !.sent = 1,
                              !.payload = "%2Fd4science.research-infrastructures.eu%2FD4OS%2F"
                                              \o audience]
        /\ UNCHANGED <<keyfile, store, syncVars, extract>>

\* the answer to the POST, and the rest of get_jwt_token
TokenResponse ==
    \E status \in JwtStatuses, access_token \in AccessTokens :
        /\ jwt.pc = "request"
        /\ jwt' = IF status = 200
                  THEN [jwt EXCEPT !.pc = "done", !.status = status,
                                   !.access_token = access_token,
                                   !.outcome = [exc |-> None,
                                                value |-> "Bearer " \o access_token]]
                  ELSE [jwt EXCEPT !.pc = "raised", !.status = status,
                                   !.outcome = [exc |-> "RuntimeError", value |-> None]]
        /\ UNCHANGED <<keyfile, store, syncVars, extract>>

TokenNext == get_jwt_token \/ TokenResponse

TokenSpec == TokenInit /\ [][TokenNext]_vars

(***************************************************************************)
(* MapSpec: one call of extract_bluecloud_metadata (mapping.py) on a       *)
(* source record.  The code before the loop over md['extras'], each turn   *)
(* of the loop and the code after the loop are the steps.                  *)
(***************************************************************************)
MaxExtras == 3

\* str.lower() on the letters A-Z
LowerLetter ==
    ("A" :> "a") @@ ("B" :> "b") @@ ("C" :> "c") @@ ("D" :> "d") @@ ("E" :> "e") @@
    ("F" :> "f") @@ ("G" :> "g") @@ ("H" :> "h") @@ ("I" :> "i") @@ ("J" :> "j") @@
    ("K" :> "k") @@ ("L" :> "l") @@ ("M" :> "m") @@ ("N" :> "n") @@ ("O" :> "o") @@
    ("P" :> "p") @@ ("Q" :> "q") @@ ("R" :> "r") @@ ("S" :> "s") @@ ("T" :> "t") @@
    ("U" :> "u") @@ ("V" :> "v") @@ ("W" :> "w") @@ ("X" :> "x") @@ ("Y" :> "y") @@
    ("Z" :> "z")
RECURSIVE Lower(_)
Lower(s) ==
    IF Len(s) = 0 THEN ""
    ELSE LET c == SubSeq(s, 1, 1)
         IN  (IF c \in DOMAIN LowerLetter THEN LowerLetter[c] ELSE c) \o Lower(From(s, 2))

\* s.replace(old, new)
RECURSIVE Replace(_, _, _)
Replace(s, old, new) ==
    LET i == Find(s, old)
    IN  IF i = 0 THEN s
        ELSE SubSeq(s, 1, i - 1) \o new \o Replace(From(s, i + Len(old)), old, new)

\* s.rstrip(c) for a single character c
RECURSIVE RStripChar(_, _)
RStripChar(s, c) ==
    IF Len(s) > 0 /\ SubSeq(s, Len(s), Len(s)) = c
    THEN RStripChar(SubSeq(s, 1, Len(s) - 1), c) ELSE s

\* whether int(s) returns: digits after an optional sign
IsInt(s) ==
    LET digits == IF Len(s) > 0 /\ SubSeq(s, 1, 1) \in {"+", "-"} THEN From(s, 2) ELSE s
    IN  /\ Len(digits) > 0
        /\ \A i \in 1..Len(digits) : StrIn(SubSeq(digits, i, i), "0123456789")

\* x in list
InList(x, list) == \E i \in 1..Len(list) : list[i] = x

ABBREVIATIONS ==
    ("oceanregimes_notebooks" :> "oceanregimes") @@
    ("oceanpatterns" :> "oceanpatterns") @@
    ("mei_generator" :> "mei_generator") @@
    ("carbon_data_notebooks" :> "carbon_notebooks") @@
    ("storm_severity_index_ssi_notebook_" :> "storm_ssi") @@
    ("marine_environmental_indicators_vlab" :> "mei_vlab") @@
    ("modelling_phyto_zoo_plankton_interactions" :> "plankton_interact") @@
    ("zooplankton_eovs" :> "zooplankton_eovs") @@
    ("zoo-_and_phytoplankton_essential_ocean_variable_products_vlab" :> "plankton_eov_vlab")

ORDER_TYPES ==
    ("fully open access" :> "order_type-fully_open_access") @@
    ("open access" :> "order_type-open_access") @@
    ("order required" :> "order_type-order_required") @@
    ("other" :> "order_type-other")

\* 3 of the 127 entries of FUNDING_BODIES
FUNDING_BODIES ==
    ("german research foundation (dfg)" :> "funding_body-dfg") @@
    ("european comission (ec)" :> "funding_body-ec") @@
    ("other" :> "funding_body-other")

\* 2 of the 82 entries of FUNDING_PROGRAMS
FUNDING_PROGRAMS ==
    ("the framework programme for research and innovation (h2020)" :> "funding_program-h2020") @@
    ("other" :> "funding_program-other")

CV_DOM ==
    ("agricultural sciences" :> "scientific_domain-agricultural_sciences") @@
    ("engineering & technology" :> "scientific_domain-engineering_and_technology") @@
    ("generic" :> "scientific_domain-generic") @@
    ("humanities" :> "scientific_domain-humanities") @@
    ("medical & health sciences" :> "scientific_domain-medical_and_health_sciences") @@
    ("natural sciences" :> "scientific_domain-natural_sciences") @@
    ("other" :> "scientific_domain-other") @@
    ("social sciences" :> "scientific_domain-social_sciences")

\* 3 of the 44 entries of CV_SUBDOM
CV_SUBDOM ==
    ("generic.generic" :> "scientific_subdomain-generic-generic") @@
    ("natural sciences.earth & related environmental sciences" :> "scientific_subdomain-natural_sciences-earth_and_related_environmental_sciences") @@
    ("natural sciences.other natural sciences" :> "scientific_subdomain-natural_sciences-other_natural_sciences")

\* the entries of CV_DOM_MAPPING for the subdomains above
CV_DOM_MAPPING ==
    ("scientific_subdomain-generic-generic" :> "scientific_domain-generic") @@
    ("scientific_subdomain-natural_sciences-earth_and_related_environmental_sciences" :> "scientific_domain-natural_sciences") @@
    ("scientific_subdomain-natural_sciences-other_natural_sciences" :> "scientific_domain-natural_sciences")

\* 5 of the 20 entries of CV_CAT
CV_CAT ==
    ("other" :> "category-other-other") @@
    ("data analysis" :> "category-processing_and_analysis-data_analysis") @@
    ("applications" :> "category-sharing_and_discovery-applications") @@
    ("development resources" :> "category-sharing_and_discovery-development_resources") @@
    ("software" :> "category-sharing_and_discovery-software")

\* 4 of the 175 entries of CV_SUBCAT
CV_SUBCAT ==
    ("data analysis.other" :> "subcategory-processing_and_analysis-data_analysis-other") @@
    ("applications.other" :> "subcategory-sharing_and_discovery-applications-other") @@
    ("development resources.other" :> "subcategory-sharing_and_discovery-development_resources-other") @@
    ("software.other" :> "subcategory-sharing_and_discovery-software-other")

\* the entries of CV_CAT_MAPPING for the subcategories above
CV_CAT_MAPPING ==
    ("subcategory-processing_and_analysis-data_analysis-other" :> "category-processing_and_analysis-data_analysis") @@
    ("subcategory-sharing_and_discovery-applications-other" :> "category-sharing_and_discovery-applications") @@
    ("subcategory-sharing_and_discovery-development_resources-other" :> "category-sharing_and_discovery-development_resources") @@
    ("subcategory-sharing_and_discovery-software-other" :> "category-sharing_and_discovery-software")

ACCESS_MODES ==
    ("free" :> "access_mode-free") @@
    ("free conditionally" :> "access_mode-free_conditionally") @@
    ("other" :> "access_mode-other") @@
    ("paid" :> "access_mode-paid") @@
    ("peer reviewed" :> "access_mode-peer_reviewed")

ACCESS_TYPES ==
    ("mail-in" :> "access_type-mail_in") @@
    ("other" :> "access_type-other") @@
    ("physical" :> "access_type-physical") @@
    ("remote" :> "access_type-remote") @@
    ("virtual" :> "access_type-virtual")

\* 5 of the 14 entries of LIFE_CYCLE_STATUS
LIFE_CYCLE_STATUS ==
    ("alpha" :> "life_cycle_status-alpha") @@
    ("beta" :> "life_cycle_status-beta") @@
    ("operation" :> "life_cycle_status-operation") @@
    ("other" :> "life_cycle_status-other") @@
    ("production" :> "life_cycle_status-production")

\* 3 of the 251 entries of COUNTRIES
COUNTRIES ==
    ("france" :> "FR") @@
    ("italy" :> "IT") @@
    ("other" :> "OT")

\* 5 of the 17 entries of TARGET_USERS
TARGET_USERS ==
    ("other" :> "target_user-other") @@
    ("research communities" :> "target_user-research_communities") @@
    ("research groups" :> "target_user-research_groups") @@
    ("researchers" :> "target_user-researchers") @@
    ("students" :> "target_user-students")

\* cv[key] on a dict: the value, or a KeyError
cv_lookup_default(cv, key) ==
    IF key \in DOMAIN cv THEN [exc |-> None, value |-> cv[key]]
    ELSE [exc |-> None, value |-> ""]

cv_lookup(cv, key) ==
    IF key \in DOMAIN cv THEN [exc |-> None, value |-> cv[key]]
    ELSE [exc |-> "KeyError", value |-> None]

\* the messages the check_ functions append to collected_messages, for a
\* string val; max_len is a number in every call
check_is_string(val, name, mandatory, max_len) ==
    IF Len(val) = 0 /\ mandatory
    THEN <<"Must have non-zero length: \"" \o name \o "\" (\"" \o val \o "\", length "
             \o ToString(Len(val)) \o ")">>
    ELSE IF max_len # 0 /\ Len(val) > max_len
    THEN <<"Length must be max " \o ToString(max_len) \o " (is " \o ToString(Len(val))
             \o "): \"" \o name \o "\" (\"" \o val \o "\")!">>
    ELSE <<>>

check_is_url(val, name, mandatory) ==
    IF Len(val) = 0
    THEN IF mandatory
         THEN <<"Must be a URL and non-zero length: \"" \o name \o "\" (\"" \o val
                  \o "\", length " \o ToString(Len(val)) \o ")">>
         ELSE <<>>
    ELSE IF ~StartsWith(val, "http")
    THEN <<"Must be a URL: \"" \o name \o "\" (\"" \o val \o "\")">>
    ELSE <<>>

\* check_is_string on every tag of a list (lines 366 and 1350)
RECURSIVE TagsMessages(_)
TagsMessages(tags) ==
    IF tags = <<>> THEN <<>>
    ELSE check_is_string(tags[1], "tags", FALSE, 50) \o TagsMessages(Tail(tags))

\* get_name_from_val for a string: firstName, lastName and the messages appended
get_name_from_val(val, name) ==
    LET byComma == Split(Strip(val), ", ")
        temp == Split(Strip(val), " ")
        malformed == "Malformed name, EOSC expects one first name and one last name: \""
                        \o name \o "\" (\"" \o val \o "\")"
    IN  IF StrIn(", ", val) /\ Len(byComma) = 2
        THEN [firstName |-> byComma[2], lastName |-> byComma[1], msgs |-> <<>>]
        ELSE IF Len(temp) = 2
        THEN [firstName |-> temp[1], lastName |-> temp[2], msgs |-> <<>>]
        ELSE IF Len(temp) = 3
        THEN [firstName |-> temp[1] \o " " \o temp[2], lastName |-> temp[3],
              msgs |-> <<"Malformed name, three names: Assuming that two are first names and one is last name: \""
                           \o name \o "\" (\"" \o val \o "\")">>]
        ELSE IF Len(temp) = 1 /\ Len(val) = 0
        THEN [firstName |-> "", lastName |-> "", msgs |-> <<>>]
        ELSE [firstName |-> "", lastName |-> val, msgs |-> <<malformed>>]

\* how a stretch of extract_bluecloud_metadata ends: with the locals it leaves,
\* and with the exception raised at a line, if any
Ok(l) == [exc |-> None, line |-> 0, loc |-> l]
Raise(exc, line, l) == [exc |-> exc, line |-> line, loc |-> l]
Messages(l, msgs) == [l EXCEPT !.collected_messages = @ \o msgs]

\* line 354: the text that ends a shortened description
add == " ... (For more details, please visit the service webpage!)"

\* a shortening that keeps the first 1000 characters and then adds the text
new_desc_after_1000(description) == SubSeq(description, 1, 1000) \o add

\* line 355: description[0:1000-len(add)] + add
new_desc(description) == SubSeq(description, 1, 1000 - Len(add)) \o add

\* lines 329-366: the values taken from the record itself
BeforeExtras(md) ==
    LET abbreviation == cv_lookup(ABBREVIATIONS, md.name)
        description == IF Len(md.notes) > 1000 THEN new_desc(md.notes) ELSE md.notes
    IN  IF abbreviation.exc # None THEN Raise(abbreviation.exc, 338, NoLocals)
        ELSE Ok([NoLocals EXCEPT
                    !.blue_id = md.id,
                    !.eosc_name = md.title,
                    !.abbreviation = abbreviation.value,
                    !.version = md.version,
                    !.description = description,
                    !.tags = md.tags,
                    !.collected_messages =
                        check_is_string(abbreviation.value, "abbreviation", TRUE, 20)
                        \o check_is_string(md.title, "eosc_name", TRUE, 80)
                        \o check_is_string(md.version, "version", FALSE, 10)
                        \o TagsMessages(md.tags)])

\* 'Name (CODE)' of the two availability branches: the unpacking of
\* tmp.split(' (') into two names, and the code without its ')'
SplitNameCode(value) ==
    LET parts == Split(Strip(value), " (")
    IN  IF Len(parts) # 2 THEN [exc |-> "ValueError", value |-> None]
        ELSE [exc |-> None, value |-> RStripChar(parts[2], ")")]

\* list.append(x), and the same with the new element put first
append_front(list, x) == <<x>> \o list

append(list, x) == Append(list, x)

\* The provider ids of the catalogue (line 298), of which these are the ones
\* that the source records and the corrections of the loop can name.
PROVIDER_IDS == <<"cmcc", "ifremer", "blue-cloud", "d4science">>

\* one turn of the loop over md['extras'] (lines 466-1184): the branch of the
\* item's key
ExtrasItem(l, item) ==
    LET value == Strip(item.value)
    IN
    CASE item.key = "BasicInformation:Resource Organisation" ->
            IF value = "blue-cloud" THEN Ok([l EXCEPT !.resourceOrganisation = value])
            ELSE IF value = "Blue-Cloud"
            THEN Ok([l EXCEPT !.resourceOrganisation = "blue-cloud"])
            ELSE IF Len(value) = 0
            THEN Ok(Messages([l EXCEPT !.resourceOrganisation = value],
                             <<"resourceOrganisation is an empty string.">>))
            ELSE Ok(Messages([l EXCEPT !.resourceOrganisation = "blue-cloud"],
                    <<"REPORTED TODO: resourceOrganisation: Replaced content \"" \o value
                        \o "\" with \"blue-cloud\"! https://support.d4science.org/issues/23182",
                      "REPORTED TODO: Should I move the original value to resourceProviders? -> https://support.d4science.org/issues/23182">>))
      [] item.key = "BasicInformation:Resource Provider" ->
            LET vre == "https://data.d4science.org/ctlg/Blue-CloudProject/blue-cloud_virtual_research_environment"
                l1 == IF Len(value) = 0
                      THEN Messages(l, <<"REPORTED TODO: Provider empty. Add d4science? https://support.d4science.org/issues/23120">>)
                      ELSE l
                l2 == IF value = "KNMI"
                      THEN Messages(l1, <<"REPORTED TODO: Corrected field \"resourceProviders\": \""
                                            \o value \o "\" with \"d4science\"!">>)
                      ELSE l1
                tmp2 == IF value \in {"D4Science", "KNMI"} THEN "d4science" ELSE value
                l3 == IF tmp2 = vre
                      THEN Messages(l2, <<"REPORTED TODO: Corrected field \"resourceProviders\": \""
                                            \o tmp2 \o "\" with \"d4science\"! --> https://support.d4science.org/issues/23183">>)
                      ELSE l2
                tmp == IF tmp2 = vre THEN "d4science" ELSE tmp2
                l4 == IF Len(tmp) > 0 /\ ~InList(tmp, PROVIDER_IDS)
                      THEN Messages(l3, <<"Provider id \"" \o tmp
                                            \o "\" not in list of ids! May fail validation.">>)
                      ELSE l3
            IN  Ok([l4 EXCEPT !.resourceProviders = append(@, tmp)])
      [] item.key = "BasicInformation:Webpage" ->
            Ok(Messages([l EXCEPT !.webpage = value], check_is_url(value, "webpage", TRUE)))
      [] item.key = "MarketingInformation:Tagline" ->
            Ok(Messages([l EXCEPT !.tagline = value],
                        check_is_string(value, "tagline", TRUE, 100)))
      [] item.key = "MarketingInformation:Logo" ->
            Ok(Messages([l EXCEPT !.logo = value], check_is_url(value, "logo", TRUE)))
      [] item.key = "MarketingInformation:Multimedia" ->
            Ok(Messages([l EXCEPT !.multimedia_url = value],
                        check_is_url(value, "multimedia_url", FALSE)))
      [] item.key = "MarketingInformation:Multimedia Name" ->
            Ok(Messages([l EXCEPT !.multimedia_name = value],
                        check_is_string(value, "multimedia_name", FALSE, 100)))
      [] item.key = "MarketingInformation:Use Case" ->
            Ok(Messages([l EXCEPT !.use_case_url = value],
                        check_is_url(value, "use_case_url", FALSE)))
      [] item.key = "MarketingInformation:Use Case Name" ->
            Ok(Messages([l EXCEPT !.use_case_name = value],
                        check_is_string(value, "use_case_name", FALSE, 100)))
      [] item.key = "ClassificationInformation:Scientific Domain" ->
            LET l1 == [l EXCEPT !.domain_names = Append(@, value)]
                dom_id == cv_lookup(CV_DOM, Lower(value))
            IN  IF dom_id.exc # None THEN Raise(dom_id.exc, 642, l1)
                ELSE Ok([l1 EXCEPT !.domain_ids = Append(@, dom_id.value)])
      [] item.key = "ClassificationInformation:Scientific Subdomain" ->
            LET hasAnd == StrIn(" and ", value)
                l1 == IF hasAnd
                      THEN Messages(l, <<"REPORTED TODO: and/& in subdom_name_long: " \o value>>)
                      ELSE l
                subdom_name_long == IF hasAnd THEN Replace(value, " and ", " & ") ELSE value
                subdom_id == cv_lookup(CV_SUBDOM, Lower(subdom_name_long))
            IN  IF Len(Split(subdom_name_long, ".")) < 2 THEN Raise("IndexError", 658, l1)
                ELSE IF subdom_id.exc # None THEN Raise(subdom_id.exc, 659, l1)
                ELSE Ok([l1 EXCEPT !.subdomain_ids = Append(@, subdom_id.value)])
      [] item.key = "ClassificationInformation:Category" ->
            LET l1 == [l EXCEPT !.category_names = Append(@, value)]
                isApplication == value = "Application"
                l2 == IF isApplication
                      THEN Messages(l1, <<"PROBLEM AT EOSC: Application without s in cat_name: https://support.d4science.org/issues/23180">>)
                      ELSE l1
                name1 == IF isApplication THEN "Applications" ELSE value
                hasAnd == StrIn(" and ", name1)
                l3 == IF hasAnd
                      THEN Messages(l2, <<"REPORTED TODO: and/& in cat_name: " \o name1
                                            \o ": https://support.d4science.org/issues/23173">>)
                      ELSE l2
                cat_name == IF hasAnd THEN Replace(name1, " and ", " & ") ELSE name1
                cat_id == cv_lookup(CV_CAT, Lower(cat_name))
            IN  IF cat_id.exc # None THEN Raise(cat_id.exc, 681, l3)
                ELSE Ok([l3 EXCEPT !.category_ids = Append(@, cat_id.value)])
      [] item.key = "ClassificationInformation:Subcategory" ->
            LET has1 == StrIn("Application.", value)
                l1 == IF has1
                      THEN Messages(l, <<"REPORTED HACK: Application without s in subcat_name_long: https://support.d4science.org/issues/23180">>)
                      ELSE l
                name1 == IF has1 THEN Replace(value, "Application.", "Applications.") ELSE value
                has2 == StrIn("Development Resource.", name1)
                l2 == IF has2
                      THEN Messages(l1, <<"REPORTED HACK: Development Resource. without s in subcat_name_long: https://support.d4science.org/issues/23180">>)
                      ELSE l1
                name2 == IF has2
                         THEN Replace(name1, "Development Resource.", "Development Resources.")
                         ELSE name1
                has3 == StrIn(" and ", name2)
                l3 == IF has3
                      THEN Messages(l2, <<"REPORTED HACK: and/& in subcategory: " \o name2
                                            \o ": https://support.d4science.org/issues/23173">>)
                      ELSE l2
                subcat_name_long == IF has3 THEN Replace(name2, " and ", " & ") ELSE name2
                subcat_id == cv_lookup(CV_SUBCAT, Lower(subcat_name_long))
            IN  IF Len(Split(subcat_name_long, ".")) < 2 THEN Raise("IndexError", 705, l3)
                ELSE IF subcat_id.exc # None THEN Raise(subcat_id.exc, 706, l3)
                ELSE Ok([l3 EXCEPT !.subcategory_ids = Append(@, subcat_id.value)])
      [] item.key = "ClassificationInformation:Target User" ->
            LET isGroups == value = "Researcher groups"
                l1 == IF isGroups
                      THEN Messages(l, <<"REPORTED HACK: replaced field \"targetUsers\": \""
                                           \o value \o "\" with \"Research Groups\"! https://support.d4science.org/issues/23184">>)
                      ELSE l
                value_bluecloud == IF isGroups THEN "Research Groups" ELSE value
                value_eosc == cv_lookup(TARGET_USERS, Lower(value_bluecloud))
            IN  IF value_eosc.exc # None THEN Raise(value_eosc.exc, 721, l1)
                ELSE Ok([l1 EXCEPT !.targetUsersNames = Append(@, value_bluecloud),
                                   !.targetUsers = append(@, value_eosc.value)])
      [] item.key = "ClassificationInformation:Access Type" ->
            LET value_eosc == cv_lookup(ACCESS_TYPES, Lower(value))
            IN  IF value_eosc.exc # None THEN Raise(value_eosc.exc, 729, l)
                ELSE Ok([l EXCEPT !.accessTypes = Append(@, value_eosc.value)])
      [] item.key = "ClassificationInformation:Access Mode" ->
            LET value_eosc == cv_lookup(ACCESS_MODES, Lower(value))
            IN  IF value_eosc.exc # None THEN Raise(value_eosc.exc, 736, l)
                ELSE Ok([l EXCEPT !.accessModes = append(@, value_eosc.value)])
      [] item.key = "AvailabilityInformation:Geographical Availability" ->
            LET value_eosc == SplitNameCode(item.value)
            IN  IF value_eosc.exc # None THEN Raise(value_eosc.exc, 752, l)
                ELSE IF Len(value_eosc.value) > 0
                THEN Ok([l EXCEPT !.geographicalAvailabilities = Append(@, value_eosc.value)])
                ELSE Ok(Messages(l, <<"Empty string passed for mandatory Geographical Availability">>))
      [] item.key = "AvailabilityInformation:Language Availability" ->
            LET value_eosc == SplitNameCode(item.value)
            IN  IF value_eosc.exc # None THEN Raise(value_eosc.exc, 768, l)
                ELSE IF Len(value_eosc.value) > 0
                THEN Ok([l EXCEPT !.languageAvailabilities = Append(@, value_eosc.value)])
                ELSE Ok(Messages(l, <<"Empty string passed for mandatory Language Availability">>))
      [] item.key = "LocationInformation:Resource Geographic Location" ->
            LET tmp == Split(value, " (")
                name == tmp[1]
                eosc_id == cv_lookup(COUNTRIES, Lower(name))
            IN  \* the else branch calls the list collected_messages
                IF Len(tmp) # 2 THEN Raise("TypeError", 799, l)
                ELSE IF eosc_id.exc = None
                THEN Ok([l EXCEPT !.eosc_id = eosc_id.value,
                                  !.resourceGeographicLocations = Append(@, eosc_id.value)])
                ELSE \* the message, without the list of the keys of COUNTRIES at its end
                     LET l1 == Messages(
                                 [l EXCEPT !.resourceGeographicLocations = Append(@, name)],
                                 <<"Could not map \"resourceGeographicLocations\": \""
                                     \o Lower(name) \o "\" not in list of countries">>)
                     IN  \* the log line after the try reads eosc_id
                         IF l.eosc_id = Unbound THEN Raise("UnboundLocalError", 813, l1)
                         ELSE Ok(l1)
      [] item.key = "ContactInformation:Main Contact Name" ->
            Ok([l EXCEPT !.maincontact_name = value])
      [] item.key = "ContactInformation:Public Contact Name" ->
            Ok([l EXCEPT !.publiccontact_name = value])
      [] item.key = "MaturityInformation:Technology Readiness Level" ->
            LET tmp == Split(value, " ")[1]
            IN  IF Len(value) > 0 /\ StartsWith(value, "TRL")
                THEN IF IsInt(Replace(tmp, "TRL", ""))
                     THEN Ok([l EXCEPT !.trl = Replace(tmp, "TRL", "trl-")])
                     ELSE Raise("ValueError", 934, l)
                ELSE Ok([l EXCEPT !.trl = None])
      [] item.key = "MaturityInformation:Life Cycle Status" ->
            LET value_eosc == cv_lookup(LIFE_CYCLE_STATUS, Lower(value))
            IN  IF value_eosc.exc # None THEN Raise(value_eosc.exc, 943, l)
                ELSE Ok([l EXCEPT !.lifeCycleStatus = value_eosc.value])
      [] item.key = "AttributionInformation:Funding Body" ->
            LET value_eosc == cv_lookup(FUNDING_BODIES, Lower(value))
            IN  IF value_eosc.exc # None THEN Raise(value_eosc.exc, 1052, l)
                ELSE Ok([l EXCEPT !.fundingBodies = append(@, value_eosc.value)])
      [] item.key = "AttributionInformation:Funding Program" ->
            LET value_eosc == cv_lookup(FUNDING_PROGRAMS, Lower(value))
            IN  IF value_eosc.exc # None THEN Raise(value_eosc.exc, 1059, l)
                ELSE Ok([l EXCEPT !.fundingPrograms = Append(@, value_eosc.value)])
      [] item.key = "AccessOrderInformation:Order Type" ->
            LET isRequest == value = "Request/Order required"
                l1 == IF isRequest
                      THEN Messages(l, <<"PROBLEM AT EOSC: Order Type: EOSC is not sure whether this is a valid value: "
                                           \o value>>)
                      ELSE l
                value_bluecloud == IF isRequest THEN "Order required" ELSE value
                value_eosc == cv_lookup(ORDER_TYPES, Lower(value_bluecloud))
            IN  IF value_eosc.exc # None THEN Raise(value_eosc.exc, 1160, l1)
                ELSE Ok([l1 EXCEPT !.orderType = value_eosc.value])
      \* a key none of the branches above names; the branches for the keys the
      \* inputs never hold (contact details other than the
      \* names, dates, URLs of the management section, ...) are not followed
      [] OTHER -> Ok(l)

\* a matcher that puts the composite of a later child id first
RECURSIVE MatchComposites_newest_first(_, _, _, _)
MatchComposites_newest_first(children, all_children, parents, mapping) ==
    IF children = <<>> THEN <<>>
    ELSE LET child == children[1]
             main == cv_lookup(mapping, child).value
             rest == MatchComposites_newest_first(Tail(children), all_children, parents,
                                                  mapping)
         IN  IF InList(main, parents)
             THEN rest \o <<[parent |-> main, child |-> child]>>
             ELSE IF Len(parents) = 1 /\ Len(all_children) = 1
             THEN rest \o <<[parent |-> parents[1], child |-> all_children[1]]>>
             ELSE rest

\* a matcher that pairs a child id whose parent is absent with the first parent
\* id, however many ids there are
RECURSIVE MatchComposites_always_forced(_, _, _, _)
MatchComposites_always_forced(children, all_children, parents, mapping) ==
    IF children = <<>> THEN <<>>
    ELSE LET child == children[1]
             main == cv_lookup(mapping, child).value
             rest == MatchComposites_always_forced(Tail(children), all_children, parents,
                                                   mapping)
         IN  IF InList(main, parents)
             THEN <<[parent |-> main, child |-> child]>> \o rest
             ELSE IF Len(parents) >= 1
             THEN <<[parent |-> parents[1], child |-> child]>> \o rest
             ELSE rest

\* lines 1253-1276 and 1295-1317: a composite for every child id whose parent
\* (by the mapping) is among the parent ids; with one parent id and one child
\* id, a composite of the two also when the parent is another
RECURSIVE MatchComposites(_, _, _, _)
MatchComposites(children, all_children, parents, mapping) ==
    IF children = <<>> THEN <<>>
    ELSE LET child == children[1]
             main == cv_lookup(mapping, child).value
             rest == MatchComposites(Tail(children), all_children, parents, mapping)
         IN  IF InList(main, parents)
             THEN <<[parent |-> main, child |-> child]>> \o rest
             ELSE IF Len(parents) = 1 /\ Len(all_children) = 1
             THEN <<[parent |-> parents[1], child |-> all_children[1]]>> \o rest
             ELSE rest

\* whether mapping[child] of these loops raises for one of the child ids
HasUnmapped(children, mapping) ==
    \E i \in 1..Len(children) : cv_lookup(mapping, children[i]).exc # None

\* a filter that removes the collected names and keeps the access tags
FilterTags_names_only(tags, l) ==
    SelectSeq(tags, LAMBDA item : ~(\/ InList(item, l.targetUsersNames)
                                    \/ InList(item, l.category_names)
                                    \/ InList(item, l.domain_names)))

\* lines 1333-1347: the tags that are no collected name and no access tag
RECURSIVE FilterTags(_, _)
FilterTags(tags, l) ==
    IF tags = <<>> THEN <<>>
    ELSE LET item == tags[1]
             removed == \/ InList(item, l.targetUsersNames)
                        \/ StartsWith(item, "Access Mode")
                        \/ StartsWith(item, "Access Type")
                        \/ InList(item, l.category_names)
                        \/ InList(item, l.domain_names)
         IN  (IF removed THEN <<>> ELSE <<item>>) \o FilterTags(Tail(tags), l)

\* lines 1430-1496: the dict returned, with the keys this model follows
Target(l, main, public, tags) ==
    [blue_id |-> l.blue_id,
     abbreviation |-> l.abbreviation,
     name |-> l.eosc_name,
     resourceOrganisation |-> l.resourceOrganisation,
     resourceProviders |-> l.resourceProviders,
     webpage |-> l.webpage,
     description |-> l.description,
     tagline |-> l.tagline,
     logo |-> l.logo,
     multimedia |-> IF Len(l.multimedia_url) = 0 /\ Len(l.multimedia_name) = 0 THEN <<>>
                    ELSE <<[multimediaURL |-> l.multimedia_url,
                            multimediaName |-> l.multimedia_name]>>,
     useCases |-> IF Len(l.use_case_url) = 0 /\ Len(l.use_case_name) = 0 THEN <<>>
                  ELSE <<[useCaseURL |-> l.use_case_url, useCaseName |-> l.use_case_name]>>,
     scientificDomains |->
         MatchComposites(l.subdomain_ids, l.subdomain_ids, l.domain_ids, CV_DOM_MAPPING),
     categories |->
         MatchComposites(l.subcategory_ids, l.subcategory_ids, l.category_ids, CV_CAT_MAPPING),
     targetUsers |-> l.targetUsers,
     accessTypes |-> l.accessTypes,
     accessModes |-> l.accessModes,
     tags |-> tags,
     geographicalAvailabilities |-> l.geographicalAvailabilities,
     languageAvailabilities |-> l.languageAvailabilities,
     resourceGeographicLocations |-> l.resourceGeographicLocations,
     mainContact |-> [firstName |-> main.firstName, lastName |-> main.lastName],
     publicContacts |-> <<[firstName |-> public.firstName, lastName |-> public.lastName]>>,
     trl |-> l.trl,
     lifeCycleStatus |-> l.lifeCycleStatus,
     version |-> l.version,
     fundingBody |-> l.fundingBodies,
     fundingPrograms |-> l.fundingPrograms,
     orderType |-> l.orderType]

\* `val is None or len(val.strip()) == 0` of lines 1361-1385, for a string
IsMissing(val) == Len(Strip(val)) = 0

\* lines 1376-1386: the names appended for the composites with a missing id
RECURSIVE MissingInComposites(_, _, _)
MissingInComposites(composites, parent, child) ==
    IF composites = <<>> THEN <<>>
    ELSE (IF IsMissing(composites[1].parent) THEN <<parent>> ELSE <<>>)
         \o (IF IsMissing(composites[1].child) THEN <<child>> ELSE <<>>)
         \o MissingInComposites(Tail(composites), parent, child)

\* lines 1393-1399: the name, once for every empty entry of the list
RECURSIVE MissingInList(_, _)
MissingInList(list, name) ==
    IF list = <<>> THEN <<>>
    ELSE (IF Len(list[1]) = 0 THEN <<name>> ELSE <<>>) \o MissingInList(Tail(list), name)

\* lines 1358-1399: missing_mandatory_items as the checks leave it
MissingMandatory(l) ==
    LET missing(val, name) == IF IsMissing(val) THEN <<name>> ELSE <<>>
    IN  missing(l.abbreviation, "abbreviation")
        \o missing(l.eosc_name, "eosc_name")
        \o missing(l.resourceOrganisation, "resourceOrganisation")
        \o missing(l.webpage, "webpage")
        \o missing(l.description, "description")
        \o missing(l.tagline, "tagline")
        \o missing(l.logo, "logo")
        \o MissingInComposites(
              MatchComposites(l.subdomain_ids, l.subdomain_ids, l.domain_ids, CV_DOM_MAPPING),
              "scientificDomain", "scientificSubdomain")
        \o MissingInComposites(
              MatchComposites(l.subcategory_ids, l.subcategory_ids, l.category_ids,
                              CV_CAT_MAPPING),
              "category", "subcategory")
        \o (IF Len(l.targetUsers) = 0 THEN <<"targetUsers">> ELSE <<>>)
        \o MissingInList(l.geographicalAvailabilities, "geographicalAvailabilities")
        \o MissingInList(l.languageAvailabilities, "languageAvailabilities")

\* lines 1200-1498: the code after the loop
AfterExtras(l) ==
    LET main == get_name_from_val(l.maincontact_name, "maincontact_name")
        public == get_name_from_val(l.publiccontact_name, "publiccontact_name")
        new_tags == FilterTags(l.tags, l)
        l1 == Messages(l,
                main.msgs \o public.msgs
                \o check_is_string(public.firstName, "publiccontact_firstName", FALSE, 20)
                \o check_is_string(public.lastName, "publiccontact_lastName", FALSE, 20)
                \o check_is_string(main.firstName, "maincontact_firstName", TRUE, 20)
                \o check_is_string(main.lastName, "maincontact_lastName", TRUE, 20)
                \o TagsMessages(new_tags))
    IN  IF l.multimedia_url = "www.mymedia.org" THEN Raise("ValueError", 1206, l)
        ELSE IF l.use_case_url = "www.ausecase.org" THEN Raise("ValueError", 1227, l)
        ELSE IF l.maincontact_name = Unbound THEN Raise("UnboundLocalError", 1239, l)
        ELSE IF l.publiccontact_name = Unbound
        THEN Raise("UnboundLocalError", 1240, Messages(l, main.msgs))
        ELSE IF HasUnmapped(l.subdomain_ids, CV_DOM_MAPPING) THEN Raise("KeyError", 1258, l1)
        ELSE IF HasUnmapped(l.subcategory_ids, CV_CAT_MAPPING) THEN Raise("KeyError", 1300, l1)
        ELSE [exc |-> None, line |-> 0,
              loc |-> [l1 EXCEPT !.missing_mandatory_items = MissingMandatory(l1)],
              target |-> <<Target(l1, main, public, new_tags)>>]

\* the source records: their values outside extras, one of them with a name
\* that has no abbreviation
SourceRecords ==
    { [id |-> "e5422ae1-4de6-4220-82f0-9869f2768ed3", title |-> "OceanPatterns",
       name |-> "oceanpatterns", version |-> "1",
       notes |-> "Ocean Patterns identifies coherent patterns in ocean profiles.",
       tags |-> <<"Researchers", "Access Mode: Free", "ocean patterns">>],
      [id |-> "0a1b4c9e-3d5f-4f38-b0e4-2f3f6b7c8d9e", title |-> "Phytoplankton EOVs",
       name |-> "phytoplankton_eovs", version |-> "",
       notes |-> "", tags |-> <<>>] }

\* the entries md['extras'] is made of: values the vocabularies hold as they
\* stand or once corrected, and values they do not hold
ExtrasPool ==
    { [key |-> "MarketingInformation:Multimedia", value |-> "www.mymedia.org"],
      [key |-> "ClassificationInformation:Scientific Domain", value |-> " Natural Sciences"],
      [key |-> "ClassificationInformation:Scientific Domain", value |-> "Marine Sciences"],
      [key |-> "ClassificationInformation:Scientific Subdomain",
       value |-> "Natural Sciences.Earth and related environmental sciences"],
      [key |-> "ClassificationInformation:Scientific Subdomain",
       value |-> "Natural Sciences.Oceanography"],
      [key |-> "ClassificationInformation:Scientific Subdomain", value |-> "Oceanography"],
      [key |-> "ClassificationInformation:Category", value |-> "Application"],
      [key |-> "ClassificationInformation:Category", value |-> "Notebooks"],
      [key |-> "ClassificationInformation:Subcategory", value |-> "Data Analysis.Notebooks"],
      [key |-> "ClassificationInformation:Target User", value |-> "Researcher groups"],
      [key |-> "ClassificationInformation:Target User", value |-> "Oceanographers"],
      [key |-> "ClassificationInformation:Access Type", value |-> "Online"],
      [key |-> "ClassificationInformation:Access Mode", value |-> "FREE"],
      [key |-> "ClassificationInformation:Access Mode", value |-> "Gratis"],
      [key |-> "AvailabilityInformation:Geographical Availability", value |-> "Worldwide (WW)"],
      [key |-> "AvailabilityInformation:Geographical Availability", value |-> "Worldwide"],
      [key |-> "LocationInformation:Resource Geographic Location", value |-> "Italy (IT)"],
      [key |-> "LocationInformation:Resource Geographic Location", value |-> "Other"],
      [key |-> "ContactInformation:Main Contact Name", value |-> "Noteboom, Jan Willem"],
      [key |-> "ContactInformation:Public Contact Name", value |-> "Kevin Balem"],
      [key |-> "MaturityInformation:Life Cycle Status", value |-> "Running"],
      [key |-> "AttributionInformation:Funding Body", value |-> "European Commission (EC)"],
      [key |-> "AttributionInformation:Funding Program", value |-> "Horizon 2020"],
      [key |-> "AccessOrderInformation:Order Type", value |-> "Request/Order required"],
      [key |-> "AccessOrderInformation:Order Type", value |-> "Free"] }

MapInit ==
    /\ keyfile = NoFile
    /\ store = NoStoreCall
    /\ EOSC_ACCESS_TOKEN = None
    /\ remote = NoRemote
    /\ run = NoRun
    /\ jwt = NoTokenCall
    /\ extract = NoExtract

\* the call, up to the loop over md['extras']
MapStart ==
    \E md \in SourceRecords :
        /\ extract.pc = "idle"
        /\ LET r == BeforeExtras(md)
           IN  extract' = [NoExtract EXCEPT
                              !.md = md, !.loc = r.loc, !.exc = r.exc, !.line = r.line,
                              !.pc = IF r.exc = None THEN "extras" ELSE "raised"]
        /\ UNCHANGED <<keyfile, store, syncVars, jwt>>

\* one turn of the loop: the next entry of md['extras'] is read into
\* extract.extras, whose last entry is the one at hand and the one that raised
MapExtra ==
    \E item \in ExtrasPool :
        /\ extract.pc = "extras"
        /\ Len(extract.extras) < MaxExtras
        /\ LET r == ExtrasItem(extract.loc, item)
           IN  extract' = [extract EXCEPT
                              !.extras = Append(@, item),
                              !.loc = r.loc, !.exc = r.exc, !.line = r.line,
                              !.pc = IF r.exc = None THEN "extras" ELSE "raised"]
        /\ UNCHANGED <<keyfile, store, syncVars, jwt>>

\* md['extras'] has no further entry: the code after the loop, up to the return
MapFinish ==
    /\ extract.pc = "extras"
    /\ LET r == AfterExtras(extract.loc)
       IN  extract' = IF r.exc # None
                      THEN [extract EXCEPT !.loc = r.loc, !.exc = r.exc, !.line = r.line,
                                           !.pc = "raised"]
                      ELSE [extract EXCEPT !.loc = r.loc, !.target = r.target,
                                           !.pc = "done"]
    /\ UNCHANGED <<keyfile, store, syncVars, jwt>>

MapNext == MapStart \/ MapExtra \/ MapFinish

MapSpec == MapInit /\ [][MapNext]_vars

(***************************************************************************)
(* Further specifications of extract_bluecloud_metadata.  Each reads its   *)
(* records and its extras entries from sets of its own, through the two    *)
(* steps below and MapFinish.                                              *)
(***************************************************************************)

\* the call, up to the loop over md['extras'], for a record of `records`
StartOn(records) ==
    \E md \in records :
        /\ extract.pc = "idle"
        /\ LET r == BeforeExtras(md)
           IN  extract' = [NoExtract EXCEPT
                              !.md = md, !.loc = r.loc, !.exc = r.exc, !.line = r.line,
                              !.pc = IF r.exc = None THEN "extras" ELSE "raised"]
        /\ UNCHANGED <<keyfile, store, syncVars, jwt>>

\* one turn of the loop for an entry of `pool`, the extras being at most `max`
ExtraOf(pool, max) ==
    \E item \in pool :
        /\ extract.pc = "extras"
        /\ Len(extract.extras) < max
        /\ LET r == ExtrasItem(extract.loc, item)
           IN  extract' = [extract EXCEPT
                              !.extras = Append(@, item),
                              !.loc = r.loc, !.exc = r.exc, !.line = r.line,
                              !.pc = IF r.exc = None THEN "extras" ELSE "raised"]
        /\ UNCHANGED <<keyfile, store, syncVars, jwt>>

\* the two entries without which the code after the loop raises
ContactExtras ==
    { [key |-> "ContactInformation:Main Contact Name", value |-> "Noteboom, Jan Willem"],
      [key |-> "ContactInformation:Public Contact Name", value |-> "Balem, Kevin"] }

\* a record with these notes and these tags
RecordWith(notes, tags) ==
    [id |-> "e5422ae1-4de6-4220-82f0-9869f2768ed3", title |-> "OceanPatterns",
     name |-> "oceanpatterns", version |-> "1", notes |-> notes, tags |-> tags]

(***************************************************************************)
(* NotesSpec: records whose notes are MinNotesLen to MaxNotesLen           *)
(* characters long.                                                        *)
(***************************************************************************)
MinNotesLen == 940
MaxNotesLen == 1060
MaxNotesExtras == 2

RECURSIVE Doubled(_, _)
Doubled(s, k) == IF k = 0 THEN s ELSE Doubled(s \o s, k - 1)

\* notes of n characters
NotesText == Doubled("Ocean Patterns identifies coherent patterns in ocean profiles. ", 5)
Notes(n) == SubSeq(NotesText, 1, n)

NotesRecords == { RecordWith(Notes(n), <<>>) : n \in MinNotesLen..MaxNotesLen }

NotesStart == StartOn(NotesRecords)

NotesExtra == ExtraOf(ContactExtras, MaxNotesExtras)

NotesNext == NotesStart \/ NotesExtra \/ MapFinish

NotesSpec == MapInit /\ [][NotesNext]_vars

(***************************************************************************)
(* PairSpec: records whose extras name domains, subdomains, categories and *)
(* subcategories, matching and not.                                        *)
(***************************************************************************)
MaxPairExtras == 4

PairExtras ==
    ContactExtras \cup
    { [key |-> "ClassificationInformation:Scientific Domain", value |-> "Generic"],
      [key |-> "ClassificationInformation:Scientific Domain", value |-> "Natural Sciences"],
      [key |-> "ClassificationInformation:Scientific Subdomain",
       value |-> "Natural Sciences.Other natural sciences"],
      [key |-> "ClassificationInformation:Category", value |-> "Software"],
      [key |-> "ClassificationInformation:Subcategory", value |-> "Software.Other"],
      [key |-> "ClassificationInformation:Subcategory", value |-> "Data Analysis.Other"] }

PairStart == StartOn({RecordWith("Ocean Patterns identifies coherent patterns.", <<>>)})

PairExtra == ExtraOf(PairExtras, MaxPairExtras)

PairNext == PairStart \/ PairExtra \/ MapFinish

PairSpec == MapInit /\ [][PairNext]_vars

(***************************************************************************)
(* NameSpec: records whose extras hold contact names of every shape        *)
(* get_name_from_val tells apart.                                          *)
(***************************************************************************)
MaxNameExtras == 2

FullNames ==
    { "Noteboom, Jan Willem", "Buurman, Merret", "Noteboom, Jan, Willem",
      "Kevin Balem", " Kevin Balem ", "Jan Willem Noteboom", "Balem", "" }

NameExtras ==
    { [key |-> k, value |-> v] :
        k \in {"ContactInformation:Main Contact Name",
               "ContactInformation:Public Contact Name"},
        v \in FullNames }

NameStart == StartOn({RecordWith("Ocean Patterns identifies coherent patterns.", <<>>)})

NameExtra == ExtraOf(NameExtras, MaxNameExtras)

NameNext == NameStart \/ NameExtra \/ MapFinish

NameSpec == MapInit /\ [][NameNext]_vars

(***************************************************************************)
(* TagSpec: records with tags, and extras that collect the names of target *)
(* users, categories and domains.                                          *)
(***************************************************************************)
MaxTagExtras == 3

TagLists ==
    { <<"Researchers", "Access Mode: Free", "ocean patterns">>,
      <<"ocean patterns", "Research Groups", "Researcher groups", "Software", "Generic",
        "Access Type">>,
      <<"access mode: free", "researchers", "generic", "software">>,
      <<"Generic", "profiles", "Generic", "profiles">>,
      <<"The Access Mode", "Software tools", "Access Types: Remote">>,
      <<>> }

TagRecords == { RecordWith("Ocean Patterns identifies coherent patterns.", tags) : tags \in TagLists }

TagExtras ==
    ContactExtras \cup
    { [key |-> "ClassificationInformation:Target User", value |-> "Researchers"],
      [key |-> "ClassificationInformation:Target User", value |-> "Researcher groups"],
      [key |-> "ClassificationInformation:Category", value |-> "Software"],
      [key |-> "ClassificationInformation:Scientific Domain", value |-> "Generic"] }

TagStart == StartOn(TagRecords)

TagExtra == ExtraOf(TagExtras, MaxTagExtras)

TagNext == TagStart \/ TagExtra \/ MapFinish

TagSpec == MapInit /\ [][TagNext]_vars

(***************************************************************************)
(* CaseSpec: records whose extras hold the values of CV-mapped keys in     *)
(* several letter cases.                                                   *)
(***************************************************************************)
MaxCaseExtras == 2

CaseExtras ==
    { [key |-> "ClassificationInformation:Access Mode", value |-> v] :
        v \in {"FREE", "free", "Free"} }
    \cup { [key |-> "ClassificationInformation:Category", value |-> v] :
        v \in {"Application", "application", "Software", "SOFTWARE"} }
    \cup { [key |-> "ClassificationInformation:Target User", value |-> v] :
        v \in {"Researcher groups", "researcher groups"} }
    \cup { [key |-> "ClassificationInformation:Scientific Domain", value |-> v] :
        v \in {"Generic", "generic"} }

CaseStart == StartOn({RecordWith("Ocean Patterns identifies coherent patterns.", <<>>)})

CaseExtra == ExtraOf(CaseExtras, MaxCaseExtras)

CaseNext == CaseStart \/ CaseExtra \/ MapFinish

CaseSpec == MapInit /\ [][CaseNext]_vars

(***************************************************************************)
(* PlaceSpec: records whose extras hold availabilities and locations, with *)
(* and without a code in parentheses.                                      *)
(***************************************************************************)
MaxPlaceExtras == 2

PlaceExtras ==
    { [key |-> "AvailabilityInformation:Geographical Availability", value |-> v] :
        v \in {"Europe (EO)", "Worldwide (WW)", "Worldwide", "Europe ()"} }
    \cup { [key |-> "AvailabilityInformation:Language Availability", value |-> v] :
        v \in {"English (en)", "French (fr)", "English"} }
    \cup { [key |-> "LocationInformation:Resource Geographic Location", value |-> v] :
        v \in {"Italy (IT)", "Other (OT)", "Atlantis (AT)", "Other"} }

PlaceStart == StartOn({RecordWith("Ocean Patterns identifies coherent patterns.", <<>>)})

PlaceExtra == ExtraOf(PlaceExtras, MaxPlaceExtras)

PlaceNext == PlaceStart \/ PlaceExtra \/ MapFinish

PlaceSpec == MapInit /\ [][PlaceNext]_vars

(***************************************************************************)
(* OrgSpec: records whose extras hold a Resource Organisation.             *)
(***************************************************************************)
MaxOrgExtras == 3

OrgExtras ==
    ContactExtras \cup
    { [key |-> "BasicInformation:Resource Organisation", value |-> v] :
        v \in {"blue-cloud", " blue-cloud ", "Blue-Cloud", "BLUE-CLOUD", "Some Other Org",
               "IFREMER", ""} }

OrgStart == StartOn({RecordWith("Ocean Patterns identifies coherent patterns.", <<>>)})

OrgExtra == ExtraOf(OrgExtras, MaxOrgExtras)

OrgNext == OrgStart \/ OrgExtra \/ MapFinish

OrgSpec == MapInit /\ [][OrgNext]_vars

(***************************************************************************)
(* FieldSpec: records with and without a title and notes, and extras that  *)
(* fill the mandatory fields or leave them empty.                          *)
(***************************************************************************)
MaxFieldExtras == 3

FieldRecords ==
    { [RecordWith(notes, <<>>) EXCEPT !.title = title] :
        notes \in {"Ocean Patterns identifies coherent patterns.", ""},
        title \in {"OceanPatterns", ""} }

FieldExtras ==
    ContactExtras \cup
    { [key |-> "BasicInformation:Resource Organisation", value |-> "blue-cloud"],
      [key |-> "BasicInformation:Webpage", value |-> "https://blue-cloud.d4science.org"],
      [key |-> "MarketingInformation:Tagline", value |-> "Patterns in ocean profiles"],
      [key |-> "MarketingInformation:Tagline", value |-> " "],
      [key |-> "MarketingInformation:Logo", value |-> "https://blue-cloud.d4science.org/logo.png"],
      [key |-> "ClassificationInformation:Target User", value |-> "Researchers"] }

FieldStart == StartOn(FieldRecords)

FieldExtra == ExtraOf(FieldExtras, MaxFieldExtras)

FieldNext == FieldStart \/ FieldExtra \/ MapFinish

FieldSpec == MapInit /\ [][FieldNext]_vars

(***************************************************************************)
(* Specifications whose records end with the two contact names: the extras *)
(* before them are read one turn at a step, the rest of the call is one    *)
(* step.                                                                   *)
(***************************************************************************)

\* the loop over the entries `items`, from the locals l: the locals it leaves,
\* the exception it raises, if any, and the entries read so far
RECURSIVE ReadAll(_, _, _)
ReadAll(l, items, read) ==
    IF items = <<>> THEN [exc |-> None, line |-> 0, loc |-> l, read |-> read]
    ELSE LET r == ExtrasItem(l, items[1])
         IN  IF r.exc # None
             THEN [exc |-> r.exc, line |-> r.line, loc |-> r.loc,
                   read |-> Append(read, items[1])]
             ELSE ReadAll(r.loc, Tail(items), Append(read, items[1]))

\* the last entries of md['extras'] are those of `tail`: the loop reads them,
\* and the code after the loop runs up to the return
FinishedCall(r, a) ==
    IF r.exc # None
    THEN [extract EXCEPT !.extras = r.read, !.loc = r.loc, !.exc = r.exc,
                         !.line = r.line, !.pc = "raised"]
    ELSE IF a.exc # None
    THEN [extract EXCEPT !.extras = r.read, !.loc = a.loc, !.exc = a.exc,
                         !.line = a.line, !.pc = "raised"]
    ELSE [extract EXCEPT !.extras = r.read, !.loc = a.loc, !.target = a.target,
                         !.pc = "done"]

FinishWith(tail) ==
    /\ extract.pc = "extras"
    /\ \E r \in {ReadAll(extract.loc, tail, extract.extras)} :
         \E a \in {AfterExtras(r.loc)} :
            extract' = FinishedCall(r, a)
    /\ UNCHANGED <<keyfile, store, syncVars, jwt>>

ContactTail ==
    << [key |-> "ContactInformation:Main Contact Name", value |-> "Noteboom, Jan Willem"],
       [key |-> "ContactInformation:Public Contact Name", value |-> "Balem, Kevin"] >>

(***************************************************************************)
(* MatchSpec: records with several domains, subdomains, categories and     *)
(* subcategories, in every order.                                          *)
(***************************************************************************)
MaxMatchExtras == 4

MatchExtras ==
    { [key |-> "ClassificationInformation:Scientific Domain", value |-> "Generic"],
      [key |-> "ClassificationInformation:Scientific Domain", value |-> "Natural Sciences"],
      [key |-> "ClassificationInformation:Scientific Subdomain", value |-> "Generic.Generic"],
      [key |-> "ClassificationInformation:Scientific Subdomain",
       value |-> "Natural Sciences.Other natural sciences"],
      [key |-> "ClassificationInformation:Category", value |-> "Software"],
      [key |-> "ClassificationInformation:Subcategory", value |-> "Software.Other"] }

MatchStart == StartOn({RecordWith("Ocean Patterns identifies coherent patterns.", <<>>)})

MatchExtra == ExtraOf(MatchExtras, MaxMatchExtras)

MatchFinish == FinishWith(ContactTail)

MatchNext == MatchStart \/ MatchExtra \/ MatchFinish

MatchSpec == MapInit /\ [][MatchNext]_vars

(***************************************************************************)
(* FoldSpec: records whose extras repeat the keys of single-valued and of  *)
(* list-valued fields with two values each.                                *)
(***************************************************************************)
MaxFoldExtras == 4

FoldExtras ==
    { [key |-> "MarketingInformation:Tagline", value |-> "Patterns in ocean profiles"],
      [key |-> "MarketingInformation:Tagline", value |-> "Ocean patterns for all"],
      [key |-> "MaturityInformation:Life Cycle Status", value |-> "Beta"],
      [key |-> "MaturityInformation:Life Cycle Status", value |-> "Production"],
      [key |-> "ClassificationInformation:Target User", value |-> "Researchers"],
      [key |-> "ClassificationInformation:Target User", value |-> "Researcher groups"],
      [key |-> "BasicInformation:Resource Provider", value |-> "KNMI"],
      [key |-> "BasicInformation:Resource Provider", value |-> "ifremer"] }

FoldStart == StartOn({RecordWith("Ocean Patterns identifies coherent patterns.", <<>>)})

FoldExtra == ExtraOf(FoldExtras, MaxFoldExtras)

FoldFinish == FinishWith(ContactTail)

FoldNext == FoldStart \/ FoldExtra \/ FoldFinish

FoldSpec == MapInit /\ [][FoldNext]_vars

(***************************************************************************)
(* SentinelSpec: records whose extras hold multimedia and use case entries *)
(* with and without the placeholder values.                                *)
(***************************************************************************)
MaxSentinelExtras == 3

SentinelExtras ==
    { [key |-> "MarketingInformation:Multimedia", value |-> "www.mymedia.org"],
      [key |-> "MarketingInformation:Multimedia", value |-> "https://www.blue-cloud.org/video"],
      [key |-> "MarketingInformation:Multimedia Name", value |-> "Demonstrator video"],
      [key |-> "MarketingInformation:Use Case", value |-> "www.ausecase.org"],
      [key |-> "MarketingInformation:Use Case", value |-> "https://www.blue-cloud.org/use-case"],
      [key |-> "MarketingInformation:Use Case Name", value |-> "Ocean patterns"],
      [key |-> "MarketingInformation:Tagline", value |-> "Patterns in ocean profiles"] }

SentinelStart == StartOn({RecordWith("Ocean Patterns identifies coherent patterns.", <<>>)})

SentinelExtra == ExtraOf(SentinelExtras, MaxSentinelExtras)

SentinelFinish == FinishWith(ContactTail)

SentinelNext == SentinelStart \/ SentinelExtra \/ SentinelFinish

SentinelSpec == MapInit /\ [][SentinelNext]_vars

(***************************************************************************)
(* ConvertSpec: calls of get_and_convert_metadata (integration.py), with   *)
(* and without tofile.  The record is the answer of                        *)
(* get_metadata_one_service; its extras end with the contact names.        *)
(***************************************************************************)
MaxConvertExtras == 2

\* get_and_convert_metadata up to the loop of extract_bluecloud_metadata:
\* the source record is written to its JSON file when tofile is set
ConvertStart ==
    \E tofile \in BOOLEAN,
       md \in {RecordWith("Ocean Patterns identifies coherent patterns.", <<>>)} :
        /\ extract.pc = "idle"
        /\ LET r == BeforeExtras(md)
               caller == [NoCaller EXCEPT !.tofile = tofile,
                                          !.files = IF tofile THEN <<"bc">> ELSE <<>>]
           IN  extract' = [NoExtract EXCEPT
                              !.md = md, !.loc = r.loc, !.exc = r.exc, !.line = r.line,
                              !.caller = caller,
                              !.pc = IF r.exc = None THEN "extras" ELSE "raised"]
        /\ UNCHANGED <<keyfile, store, syncVars, jwt>>

ConvertExtra == ExtraOf(FoldExtras, MaxConvertExtras)

\* get_and_convert_metadata once extract_bluecloud_metadata has ended in e:
\* the mapped record is written and returned inside `if tofile:`, and without
\* tofile the function ends without a return statement
get_and_convert_metadata(e) ==
    IF e.pc # "done" THEN e
    ELSE IF e.caller.tofile
    THEN [e EXCEPT !.caller.files = Append(@, "mapped"), !.caller.returned = e.target]
    ELSE [e EXCEPT !.caller.returned = <<>>]

ConvertFinish ==
    /\ extract.pc = "extras"
    /\ \E r \in {ReadAll(extract.loc, ContactTail, extract.extras)} :
         \E a \in {AfterExtras(r.loc)} :
            extract' = get_and_convert_metadata(FinishedCall(r, a))
    /\ UNCHANGED <<keyfile, store, syncVars, jwt>>

ConvertNext == ConvertStart \/ ConvertExtra \/ ConvertFinish

ConvertSpec == MapInit /\ [][ConvertNext]_vars

(***************************************************************************)
(* The claims.                                                             *)
(***************************************************************************)

\* C4: a write_id_to_file call that repeats the call before it, argument for
\* argument, leaves the key file as that first call left it.
C4_RepeatedWriteIsSkipped ==
    (store.op = "write" /\ store.repeated) => keyfile = store.before

\* C4 witness: a record was written and the same call was made again
C4_Witness ==
    /\ store.op = "write" /\ store.repeated
    /\ store.args[3] # None
    /\ Len(RecordLines) = 1

LogOf(kinds) == SelectSeq(run.log, LAMBDA e : e[1] \in kinds)
Requests == LogOf({"PUT", "POST"})
ExistenceChecks == LogOf({"GET /resource/id", "GET /resource/all"})
LastEntry == run.log[Len(run.log)]
Ended == run.pc \in {"done", "raised"}

\* C3 as stated: runs are idempotent, the target creates at most one resource
\* for a source id however often update_or_create_at_eosc runs for it.
C3_AtMostOneResourcePerSourceId ==
    \A b \in BlueIds : remote.created[b] <= 1

\* C6 as stated: make_authorized_request asks for a new token only after a
\* 401, at most once a call, and gives up once the retried request has failed.
C6_ReauthenticatesOnlyOn401 ==
    /\ run.pc = "token_reauth" => LastEntry[2] = 401
    /\ Len(Requests) <= 2
    /\ (Len(Requests) = 2 /\ Requests[2][2] \notin {200, 201}) => run.pc = "raised"
    /\ \A k \in 1..Len(Requests) :
          (Requests[k][2] \notin {200, 201, 401}) => Len(Requests) = k /\ run.pc = "raised"

\* C7 as stated: when the target answers the POST with 201, create_resource
\* returns the id of the response and does not raise.
C7_CreateReturnsTheId ==
    (Ended /\ Len(run.log) > 0 /\ LastEntry[1] = "POST" /\ LastEntry[2] = 201)
        => run.pc = "done" /\ run.outcome.value \in TargetIds

\* C8 as stated: when the target answers the PUT with 200 or 201,
\* update_resource returns without raising.
C8_UpdateAcceptsEvery2xx ==
    (Ended /\ Len(run.log) > 0 /\ LastEntry[1] = "PUT" /\ LastEntry[2] \in {200, 201})
        => run.pc = "done"

\* C9 as stated: an existence check answered with a status other than 200 and
\* 404 raises, so no run goes on to create or update after a server error.
C9_ExistenceChecksRaiseOnServerError ==
    \A k \in 1..Len(ExistenceChecks) :
        ExistenceChecks[k][2] \notin {200, 404}
            => run.pc = "raised" /\ run.does_exists = None

\* C10: get_jwt_token fails for an audience outside AUDIENCES before it sends
\* any request; for an audience of the list it returns "Bearer " followed by
\* the access token when the identity provider answers 200, and raises on
\* every other status.
C10_TokenOrError ==
    /\ (jwt.pc # "idle" /\ jwt.audience \notin AUDIENCES)
          => jwt.pc = "raised" /\ jwt.sent = 0
    /\ (jwt.pc # "idle" /\ jwt.audience \in AUDIENCES) => jwt.sent = 1
    /\ jwt.pc = "done"
          => jwt.status = 200 /\ jwt.outcome.value = "Bearer " \o jwt.access_token
    /\ (jwt.pc \in {"done", "raised"} /\ jwt.sent = 1)
          => IF jwt.status = 200 THEN jwt.pc = "done"
             ELSE jwt.pc = "raised" /\ jwt.outcome.exc = "RuntimeError"

\* C10 witness: a second call, for a VRE name that is not an audience, has
\* failed without a request
C10_Witness ==
    /\ jwt.n = 2 /\ jwt.pc = "raised"
    /\ jwt.audience = "marineenvironmentalindicators"
    /\ jwt.sent = 0

\* whether an extras entry holds a placeholder that the code after the loop
\* refuses
IsPlaceholder(item) ==
    \/ item.key = "MarketingInformation:Multimedia" /\ Strip(item.value) = "www.mymedia.org"
    \/ item.key = "MarketingInformation:Use Case" /\ Strip(item.value) = "www.ausecase.org"

\* C1 as stated: extract_bluecloud_metadata raises only for a record that
\* holds a placeholder value, and every other call returns a target record.
C1_RaisesOnlyForPlaceholders ==
    /\ extract.pc = "raised"
          => \E k \in 1..Len(extract.extras) : IsPlaceholder(extract.extras[k])
    /\ extract.pc = "done" => Len(extract.target) = 1

\* the vocabulary of a CV-mapped extras key
C2_Vocabulary ==
    ("ClassificationInformation:Scientific Domain" :> DOMAIN CV_DOM) @@
    ("ClassificationInformation:Scientific Subdomain" :> DOMAIN CV_SUBDOM) @@
    ("ClassificationInformation:Category" :> DOMAIN CV_CAT) @@
    ("ClassificationInformation:Subcategory" :> DOMAIN CV_SUBCAT) @@
    ("ClassificationInformation:Target User" :> DOMAIN TARGET_USERS) @@
    ("ClassificationInformation:Access Type" :> DOMAIN ACCESS_TYPES) @@
    ("ClassificationInformation:Access Mode" :> DOMAIN ACCESS_MODES) @@
    ("MaturityInformation:Life Cycle Status" :> DOMAIN LIFE_CYCLE_STATUS) @@
    ("AttributionInformation:Funding Body" :> DOMAIN FUNDING_BODIES) @@
    ("AttributionInformation:Funding Program" :> DOMAIN FUNDING_PROGRAMS) @@
    ("AccessOrderInformation:Order Type" :> DOMAIN ORDER_TYPES)

\* the value of a CV-mapped entry once stripped, corrected and lowercased
C2_Normalised(item) ==
    LET v == Strip(item.value)
    IN  Lower(
          CASE item.key = "ClassificationInformation:Scientific Subdomain" ->
                  Replace(v, " and ", " & ")
            [] item.key = "ClassificationInformation:Category" ->
                  Replace(IF v = "Application" THEN "Applications" ELSE v, " and ", " & ")
            [] item.key = "ClassificationInformation:Subcategory" ->
                  Replace(Replace(Replace(v, "Application.", "Applications."),
                                  "Development Resource.", "Development Resources."),
                          " and ", " & ")
            [] item.key = "ClassificationInformation:Target User" ->
                  IF v = "Researcher groups" THEN "Research Groups" ELSE v
            [] item.key = "AccessOrderInformation:Order Type" ->
                  IF v = "Request/Order required" THEN "Order required" ELSE v
            [] OTHER -> v)

C2_IsAbsent(item) ==
    /\ item.key \in DOMAIN C2_Vocabulary
    /\ C2_Normalised(item) \notin C2_Vocabulary[item.key]

\* C2: an extras entry of a CV-mapped key whose stripped, corrected and
\* lowercased value is not in the key's vocabulary is the last entry the loop
\* reads: the call raises in the loop at that entry and returns no target.
C2_AbsentCVValueRaises ==
    \A k \in 1..Len(extract.extras) :
        C2_IsAbsent(extract.extras[k])
            => /\ extract.pc = "raised"
               /\ k = Len(extract.extras)
               /\ extract.exc \in {"KeyError", "IndexError"}
               /\ extract.line \in 466..1184
               /\ extract.target = <<>>

\* C2 witness: after a domain the vocabulary holds, an access mode it does not
\* hold has raised a KeyError
C2_Witness ==
    /\ extract.pc = "raised" /\ extract.exc = "KeyError" /\ extract.line = 736
    /\ Len(extract.extras) = 2
    /\ extract.extras[2] = [key |-> "ClassificationInformation:Access Mode", value |-> "Gratis"]
    /\ extract.loc.domain_ids = <<"scientific_domain-natural_sciences">>

\* C11: for notes of more than 1000 characters, the description of the target
\* record is 1000 characters long: the first 942 characters of the notes and
\* the fixed text after them; shorter notes are the description as they stand.
C11_LongDescriptionIs1000 ==
    extract.pc = "done" =>
        LET notes == extract.md.notes
            description == extract.target[1].description
        IN  IF Len(notes) > 1000
            THEN /\ Len(description) = 1000
                 /\ SubSeq(description, 1, 1000 - Len(add)) = SubSeq(notes, 1, 1000 - Len(add))
                 /\ SubSeq(description, 1000 - Len(add) + 1, 1000) = add
            ELSE description = notes

\* C11 witness: notes of 1001 characters were mapped to a description of 1000
C11_Witness ==
    /\ extract.pc = "done"
    /\ Len(extract.md.notes) = 1001
    /\ Len(extract.target[1].description) = 1000

\* C12 as stated: for a record with one domain id and one subdomain id whose
\* parent by CV_DOM_MAPPING is another domain, the target holds exactly the
\* pair of the two and collected_messages holds at least one message; the
\* same for one category id and one subcategory id.
C12_ForcedPairHasDiagnostic ==
    LET l == extract.loc
        t == extract.target[1]
    IN  /\ (/\ extract.pc = "done"
            /\ Len(l.domain_ids) = 1 /\ Len(l.subdomain_ids) = 1
            /\ CV_DOM_MAPPING[l.subdomain_ids[1]] # l.domain_ids[1])
              => /\ t.scientificDomains
                        = <<[parent |-> l.domain_ids[1], child |-> l.subdomain_ids[1]]>>
                 /\ Len(l.collected_messages) >= 1
        /\ (/\ extract.pc = "done"
            /\ Len(l.category_ids) = 1 /\ Len(l.subcategory_ids) = 1
            /\ CV_CAT_MAPPING[l.subcategory_ids[1]] # l.category_ids[1])
              => /\ t.categories
                        = <<[parent |-> l.category_ids[1], child |-> l.subcategory_ids[1]]>>
                 /\ Len(l.collected_messages) >= 1

\* a full name split once at its first ', ': the part after it is the first
\* name, the part before it the last name
SplitOnceAtComma(val) ==
    LET i == Find(val, ", ")
    IN  [firstName |-> From(val, i + 2), lastName |-> SubSeq(val, 1, i - 1)]

\* C13 as stated: a contact name that contains ', ' is split once at it, into
\* (firstName, lastName) = (the part after it, the part before it), also when
\* ', ' occurs more than once.
C13_CommaNameSplitOnce ==
    extract.pc = "done" =>
        /\ StrIn(", ", extract.loc.maincontact_name)
              => extract.target[1].mainContact = SplitOnceAtComma(extract.loc.maincontact_name)
        /\ StrIn(", ", extract.loc.publiccontact_name)
              => extract.target[1].publicContacts[1]
                    = SplitOnceAtComma(extract.loc.publiccontact_name)

\* whether a full name is two tokens with one space between them, and no ', '
IsTwoTokens(val) ==
    /\ ~StrIn(", ", val)
    /\ Len(Split(val, " ")) = 2
    /\ \A k \in 1..2 : Len(Split(val, " ")[k]) > 0

\* the messages of collected_messages that name this field
MessagesNaming(name) ==
    { k \in 1..Len(extract.loc.collected_messages) :
        StrIn("\"" \o name \o "\"", extract.loc.collected_messages[k]) }

\* C14 as stated: a main contact name of two tokens and no ', ' is split into
\* (first token, second token), and collected_messages holds exactly one
\* message about it.
C14_TwoTokenNameHasOneDiagnostic ==
    (extract.pc = "done" /\ IsTwoTokens(extract.loc.maincontact_name)) =>
        LET temp == Split(extract.loc.maincontact_name, " ")
        IN  /\ extract.target[1].mainContact = [firstName |-> temp[1], lastName |-> temp[2]]
            /\ Cardinality(MessagesNaming("maincontact_name")) = 1

\* the names collected for the filter, and the tags the filter removes
CollectedNames ==
    { extract.loc.targetUsersNames[k] : k \in 1..Len(extract.loc.targetUsersNames) }
    \cup { extract.loc.category_names[k] : k \in 1..Len(extract.loc.category_names) }
    \cup { extract.loc.domain_names[k] : k \in 1..Len(extract.loc.domain_names) }

IsRedundantTag(tag) ==
    \/ tag \in CollectedNames
    \/ Len(tag) >= 11 /\ SubSeq(tag, 1, 11) \in {"Access Mode", "Access Type"}

IdsOf(key) ==
    CASE key = "ClassificationInformation:Access Mode" -> extract.loc.accessModes
      [] key = "ClassificationInformation:Category" -> extract.loc.category_ids
      [] key = "ClassificationInformation:Target User" -> extract.loc.targetUsers
      [] key = "ClassificationInformation:Scientific Domain" -> extract.loc.domain_ids

\* how many of the first i extras have the key of the i-th
NthOfKey(i) ==
    Cardinality({ k \in 1..i : extract.extras[k].key = extract.extras[i].key })

\* C16 as stated: two values of one CV-mapped key that differ only in letter
\* case are mapped to the same identifier; the second does not raise where the
\* first was mapped.
C16_CaseVariantsMapAlike ==
    \A i, j \in 1..Len(extract.extras) :
        (/\ i < j
         /\ extract.extras[i].key = extract.extras[j].key
         /\ Lower(extract.extras[i].value) = Lower(extract.extras[j].value))
            => /\ ~(j = Len(extract.extras) /\ extract.pc = "raised"
                        /\ extract.line \in 466..1184)
               /\ IdsOf(extract.extras[i].key)[NthOfKey(i)]
                    = IdsOf(extract.extras[j].key)[NthOfKey(j)]

\* the extras entry read last, and whether the loop raised at it
LastExtra == extract.extras[Len(extract.extras)]
RaisedInLoop == extract.pc = "raised" /\ extract.line \in 466..1184

\* the last element of a list, "" for an empty list
LastOf(list) == IF Len(list) = 0 THEN "" ELSE list[Len(list)]

\* C17 as stated: a Geographical or Language Availability value
\* 'Display Name (CODE)' has its CODE appended to the availability list; for
\* a value without parentheses the loop goes on and collected_messages holds a
\* message about the missing mandatory value.
C17_AvailabilityCodeOrDiagnostic ==
    (/\ Len(extract.extras) > 0
     /\ LastExtra.key \in {"AvailabilityInformation:Geographical Availability",
                           "AvailabilityInformation:Language Availability"})
        => LET value == Strip(LastExtra.value)
               i == Find(value, " (")
               list == IF LastExtra.key = "AvailabilityInformation:Geographical Availability"
                       THEN extract.loc.geographicalAvailabilities
                       ELSE extract.loc.languageAvailabilities
           IN  /\ ~RaisedInLoop
               /\ IF i > 0 /\ Len(value) > i + 2
                  THEN LastOf(list) = SubSeq(value, i + 2, Len(value) - 1)
                  ELSE \E k \in 1..Len(extract.loc.collected_messages) :
                          StrIn("mandatory", extract.loc.collected_messages[k])

\* C18 as stated: every Resource Geographic Location entry adds one element to
\* resourceGeographicLocations and the loop goes on: the identifier of the
\* display name in COUNTRIES, or the display name itself, with a message, when
\* COUNTRIES does not hold it.
C18_LocationNeverAborts ==
    (/\ Len(extract.extras) > 0
     /\ LastExtra.key = "LocationInformation:Resource Geographic Location")
        => LET name == Split(Strip(LastExtra.value), " (")[1]
               locations == { k \in 1..Len(extract.extras) :
                                extract.extras[k].key = LastExtra.key }
           IN  /\ ~RaisedInLoop
               /\ Len(extract.loc.resourceGeographicLocations) = Cardinality(locations)
               /\ IF Lower(name) \in DOMAIN COUNTRIES
                  THEN LastOf(extract.loc.resourceGeographicLocations) = COUNTRIES[Lower(name)]
                  ELSE /\ LastOf(extract.loc.resourceGeographicLocations) = name
                       /\ Len(extract.loc.collected_messages) > 0

\* C19 as stated: a non-empty Resource Organisation value is mapped to
\* 'blue-cloud', and collected_messages holds a message about it whenever the
\* value was another than 'blue-cloud'; the value 'blue-cloud' records none.
C19_OrganisationChangeIsRecorded ==
    (/\ Len(extract.extras) = 1
     /\ LastExtra.key = "BasicInformation:Resource Organisation"
     /\ Len(Strip(LastExtra.value)) > 0)
        => /\ extract.loc.resourceOrganisation = "blue-cloud"
           /\ (Strip(LastExtra.value) = "blue-cloud") = (extract.loc.collected_messages = <<>>)

\* C20 as stated: missing_mandatory_items holds exactly the mandatory fields
\* that are empty in the target record, under the names of the target fields
\* and in the order of the checks.
C20_MissingListNamesEmptyTargetFields ==
    extract.pc = "done" =>
        LET t == extract.target[1]
            fields == <<"abbreviation", "name", "resourceOrganisation", "webpage",
                        "description", "tagline", "logo">>
        IN  extract.loc.missing_mandatory_items
              = SelectSeq(fields, LAMBDA f : Len(Strip(t[f])) = 0)
                \o MissingInComposites(t.scientificDomains,
                                       "scientificDomain", "scientificSubdomain")
                \o MissingInComposites(t.categories, "category", "subcategory")
                \o (IF t.targetUsers = <<>> THEN <<"targetUsers">> ELSE <<>>)
                \o MissingInList(t.geographicalAvailabilities, "geographicalAvailabilities")
                \o MissingInList(t.languageAvailabilities, "languageAvailabilities")

\* what a call that has returned handed to its caller: the operands of its
\* return statement, in their order
ReturnedValues == IF extract.pc = "done" THEN extract.target ELSE <<>>

\* C21 as stated: a call that returns hands three values to its caller: the
\* target record, collected_messages and missing_mandatory_items.
C21_ReturnsAllOutputs ==
    extract.pc = "done" =>
        /\ Len(ReturnedValues) = 3
        /\ ReturnedValues[2] = extract.loc.collected_messages
        /\ ReturnedValues[3] = extract.loc.missing_mandatory_items

\* whether every child id has its parent, by the mapping, among the parent ids
AllParentsPresent(children, parents, mapping) ==
    \A k \in 1..Len(children) :
        \E j \in 1..Len(parents) : parents[j] = mapping[children[k]]

\* one pair of a child id and its parent for every child id, in their order
PairPerChild(children, mapping) ==
    [k \in 1..Len(children) |-> [parent |-> mapping[children[k]], child |-> children[k]]]

\* C22: when the parent of every child id is among the parent ids, the
\* composites are one pair (parent of c, c) for every child id c, in the order
\* of the child ids, duplicates included, whatever the order of the parent ids.
C22_OnePairPerChildInChildOrder ==
    extract.pc = "done" =>
        LET l == extract.loc
            t == extract.target[1]
        IN  /\ AllParentsPresent(l.subdomain_ids, l.domain_ids, CV_DOM_MAPPING)
                  => t.scientificDomains = PairPerChild(l.subdomain_ids, CV_DOM_MAPPING)
            /\ AllParentsPresent(l.subcategory_ids, l.category_ids, CV_CAT_MAPPING)
                  => t.categories = PairPerChild(l.subcategory_ids, CV_CAT_MAPPING)

\* C22 witness: two subdomains were paired in their order, which is not the
\* order of their domains
C22_Witness ==
    /\ extract.pc = "done"
    /\ extract.loc.domain_ids
          = <<"scientific_domain-natural_sciences", "scientific_domain-generic">>
    /\ extract.loc.subdomain_ids
          = <<"scientific_subdomain-generic-generic",
              "scientific_subdomain-natural_sciences-other_natural_sciences">>
    /\ Len(extract.target[1].scientificDomains) = 2
    /\ extract.target[1].scientificDomains[1].child = "scientific_subdomain-generic-generic"

\* whether a pair is the child's parent by the mapping, found among the parents
IsMatchingPair(pair, parents, mapping) ==
    /\ pair.parent = mapping[pair.child]
    /\ \E j \in 1..Len(parents) : parents[j] = pair.parent

\* C23: every composite of the target is a child id with its parent by the
\* mapping, the parent being among the parent ids, unless there is exactly one
\* parent id and exactly one child id.
C23_PairsMatchUnlessSingle ==
    extract.pc = "done" =>
        LET l == extract.loc
            t == extract.target[1]
        IN  /\ \A k \in 1..Len(t.scientificDomains) :
                  \/ IsMatchingPair(t.scientificDomains[k], l.domain_ids, CV_DOM_MAPPING)
                  \/ Len(l.domain_ids) = 1 /\ Len(l.subdomain_ids) = 1
            /\ \A k \in 1..Len(t.categories) :
                  \/ IsMatchingPair(t.categories[k], l.category_ids, CV_CAT_MAPPING)
                  \/ Len(l.category_ids) = 1 /\ Len(l.subcategory_ids) = 1

\* C23 witness: of two subdomains, the one whose domain is absent has no pair
C23_Witness ==
    /\ extract.pc = "done"
    /\ extract.loc.domain_ids = <<"scientific_domain-generic">>
    /\ extract.loc.subdomain_ids
          = <<"scientific_subdomain-generic-generic",
              "scientific_subdomain-natural_sciences-other_natural_sciences">>
    /\ extract.target[1].scientificDomains
          = <<[parent |-> "scientific_domain-generic",
               child |-> "scientific_subdomain-generic-generic"]>>

\* The extras keys of the single-valued and of the list-valued fields the
\* loop fills: the key, the local variable and the key of the target.
ScalarFields ==
    { [key |-> "BasicInformation:Webpage", loc |-> "webpage", target |-> "webpage"],
      [key |-> "MarketingInformation:Tagline", loc |-> "tagline", target |-> "tagline"],
      [key |-> "MarketingInformation:Logo", loc |-> "logo", target |-> "logo"],
      [key |-> "MaturityInformation:Life Cycle Status", loc |-> "lifeCycleStatus",
       target |-> "lifeCycleStatus"],
      [key |-> "AccessOrderInformation:Order Type", loc |-> "orderType",
       target |-> "orderType"] }

ListFields ==
    { [key |-> "ClassificationInformation:Target User", loc |-> "targetUsers",
       target |-> "targetUsers"],
      [key |-> "ClassificationInformation:Access Mode", loc |-> "accessModes",
       target |-> "accessModes"],
      [key |-> "BasicInformation:Resource Provider", loc |-> "resourceProviders",
       target |-> "resourceProviders"],
      [key |-> "AttributionInformation:Funding Body", loc |-> "fundingBodies",
       target |-> "fundingBody"] }

\* what one entry alone leaves in the local variable `name`
ValueOf(item, name) == ExtrasItem(NoLocals, item).loc[name]

\* the entries of `items` with the key `key`, in their order
RECURSIVE WithKey(_, _)
WithKey(items, key) ==
    IF items = <<>> THEN <<>>
    ELSE IF items[1].key = key THEN <<items[1]>> \o WithKey(Tail(items), key)
    ELSE WithKey(Tail(items), key)

\* the values of the entries of `items`, one after the other
RECURSIVE ValuesOf(_, _)
ValuesOf(items, name) ==
    IF items = <<>> THEN <<>>
    ELSE ValueOf(items[1], name) \o ValuesOf(Tail(items), name)

C25_EmptyExtrasReturnDefaults ==
    (extract.pc \in {"done", "raised"} /\ extract.extras = <<>>)
        => /\ extract.pc = "done"
           /\ \A f \in ScalarFields : extract.target[1][f.target] = ""
           /\ \A f \in ListFields : extract.target[1][f.target] = <<>>

\* C26 as stated: a call for a record of which any extras entry holds a
\* placeholder value ends with the sentinel error of the multimedia or of the
\* use case check, and returns no target.
C26_AnyPlaceholderRaises ==
    (/\ extract.pc \in {"done", "raised"}
     /\ \E k \in 1..Len(extract.extras) : IsPlaceholder(extract.extras[k]))
        => /\ extract.pc = "raised"
           /\ extract.exc = "ValueError"
           /\ extract.line \in {1206, 1227}
           /\ extract.target = <<>>

\* C27 as stated: the request that make_authorized_request sends after a
\* re-authentication carries the access token that the re-authentication
\* stored, not the token of the failed first request.
C27_RetryCarriesNewToken ==
    Len(Requests) = 2
        => /\ Requests[2][3] = "Bearer " \o EOSC_ACCESS_TOKEN
           /\ Requests[2][3] # Requests[1][3]

\* C28: a step of update_or_create_at_eosc changes the key file only when
\* create_resource has returned an id (its POST was answered 201 and the call
\* returns that id), and then the file holds a record of the source id and
\* that id; the update branch, a dry run and a create that raises leave the
\* file as it is, and a dry run ends without any request.
C28_WriteOnlyAfterCreate ==
    [][/\ keyfile' # keyfile
            => /\ run.pc = "request" /\ run.verb = "POST"
               /\ ~run.dry_run /\ ~run.does_exists
               /\ run'.pc = "done"
               /\ LastEntry'[2] = 201
               /\ run'.outcome.value # None
               /\ get_eosc_id_from_file(keyfile', run.svc.blue_id).value # None
       /\ (run'.dry_run /\ run'.pc \in {"done", "raised"})
            => run'.log = <<>> /\ keyfile' = keyfile /\ remote' = remote]_vars

\* a create whose POST the target answered with 201 and that raised: the
\* target holds the resource, the key file is still absent
C28_Witness ==
    /\ run.pc = "raised" /\ run.verb = "POST" /\ ~run.does_exists
    /\ LastEntry[2] = 201
    /\ run.outcome.exc = "NameError"
    /\ remote.created[run.svc.blue_id] = 1
    /\ keyfile = NoFile

\* C29 as stated: once write_id_to_file has been called with an id that is
\* not None, get_eosc_id_from_file returns that id for the call's blue_id,
\* whatever was written before.
C29_WrittenIdIsReadBack ==
    (store.op = "write" /\ store.args[3] # None)
        => get_eosc_id_from_file(keyfile, store.args[1]) = [exc |-> None, value |-> store.args[3]]

\* C30 as stated: get_and_convert_metadata returns the record that
\* extract_bluecloud_metadata returned, with and without tofile, and the flag
\* decides only on the JSON files written.
C30_ReturnsMappedRecordForEveryFlag ==
    extract.pc = "done"
        => /\ extract.caller.returned = extract.target
           /\ extract.caller.files
                 = IF extract.caller.tofile THEN <<"bc", "mapped">> ELSE <<>>

=============================================================================
